---- MODULE Spec2Model ----
(***************************************************************************)
(* Model of the dispatch engine of Go-LLM-Router.                          *)
(*                                                                         *)
(* The module holds one state machine per component; each has its own      *)
(* specification and leaves the variables of the other components alone:   *)
(*   SpecKM     core/key_manager.go   KeyStateManager (health store)       *)
(*   SpecProxy  core/router.go        StatelessModelRouter                 *)
(*              core/proxy.go         ProxyHandlerStateless.ProxyRequest   *)
(*   SpecLB     LoadBalancer (Route, RefreshData) with its strategies and  *)
(*              the health store it consults                               *)
(*   SpecLog    core/logger.go        AsyncRequestLogger (Log, the worker,  *)
(*              flush, Close)                                              *)
(*   SpecParse  core/router.go        ParseModelRouting, and the token      *)
(*              split at the head of LoadBalancer.Route                    *)
(*   SpecSSE    core/sse_test.go      the SSE block splitter of             *)
(*              HandleClaudeMessage                                        *)
(*   SpecStream core/adapter          the stream paths of the OpenAI,       *)
(*              Gemini and Claude adapters                                 *)
(***************************************************************************)
EXTENDS Integers, Sequences, FiniteSets, TLC

(***************************************************************************)
(* Bounds of the model.                                                    *)
(***************************************************************************)
MaxTime  == 2      \* the clock runs over 0..MaxTime (seconds)
MaxDur   == 2      \* cooldown durations are 1..MaxDur (seconds)

MaxModels  == 2     \* a group has 0..MaxModels models
MaxKeys    == 5     \* a model has 0, 1 or MaxKeys credentials
MaxCounter == 3     \* the round-robin counter of a group runs over 0..MaxCounter
MaxRequestCounter == 5   \* GroupState.RequestCounter runs over 0..MaxRequestCounter

ChanCap   == 2     \* capacity of logChan (the code makes it 1000)
BatchSize == 2     \* batchSize of the worker (the code sets it to 100)
MaxLogs   == 3     \* Log is called at most MaxLogs times
MaxTokenLen == 3   \* a routing token has at most MaxTokenLen characters
MaxStreamLen == 6  \* an upstream byte stream has at most MaxStreamLen bytes
MaxEvents == 3     \* an upstream event stream has at most MaxEvents events
MaxGatewayModels == 2   \* a group served on the logged route has at most this many models
MaxGatewayLogs == 2     \* the logged route hands at most this many records to Log
MaxRepoKeys == 2        \* a model of the repository has at most this many credentials
MaxRepoCounter == 1     \* a group counter is followed up to this value across refreshes
MaxChunks == 3     \* a Gemini upstream stream has at most MaxChunks lines
CounterBits == 4        \* width of the request counter and of int (64 in the build)
MaxMapLines == 3        \* an upstream stream of streamAndMapResponse has at most MaxMapLines lines

Keys      == {"K1", "K2"}   \* credentials (plaintext) known to the health store
Procs     == {"g1", "g2"}   \* goroutines that may be inside IsAvailable at once
Durations == 1..MaxDur

KeyCounts  == {0, 1, MaxKeys}
Strategies == {"round_robin", "fallback", "weighted"}   \* "weighted": a strategy the code does not know
GroupIDs   == {"G"}                                     \* the groups of the database
RequestedGroups == {"G", "nogroup"}                     \* the group ids a request may name
\* What an upstream call may come to: a response with an HTTP status, or a
\* network error with its message.
Statuses   == {200, 400, 401, 403, 404, 418, 429, 500}
NetErrors  == {"EOF", "timeout", "connection refused"}
Outcome(kind, status, err) == [kind |-> kind, status |-> status, err |-> err]
Outcomes   == {Outcome("response", s, <<>>) : s \in Statuses}
              \cup {Outcome("error", 0, <<m>>) : m \in NetErrors}

VARIABLES
    \* ---- core/key_manager.go -------------------------------------------
    states,      \* KeyStateManager.states: map key -> KeyState (absent = available)
    now,         \* time.Now(), in seconds
    kmCall,      \* per goroutine: where it is inside IsAvailable
    \* ---- history of the health store (not program state) ---------------
    kmRet,       \* the IsAvailable call that returned in the last step, if any
    deadCalled,  \* key -> MarkDead(key) was called and no explicit MarkAvailable(key) since
    lastCd,      \* key -> the MarkCooldown call that wrote the entry now stored, or NoCd
    \* ---- core/router.go, core/proxy.go --------------------------------
    modelGroups,       \* StatelessModelRouter.modelGroups / modelConfigMap: group id -> group
    keyMap,            \* StatelessModelRouter.keyMap: model id -> sequence of credentials
    globalRRCounters,  \* globalRRCounters: group id -> counter (created lazily)
    req,               \* the request inside ProxyRequest: its locals and position
    \* ---- history of the request (not program state) --------------------
    upstreamCalls,     \* upstream HTTP calls issued by the request so far
    lastAttempt,       \* the attempt made in the last step, if any
    \* ---- LoadBalancer --------------------------------------------------
    lbBuild,           \* which of the two Route implementations is compiled in
    groupStates,       \* LoadBalancer.groupStates: group id -> GroupState
    \* ---- history of the load balancer (not program state) --------------
    lbRet,             \* what the Route call of the last step returned, if any
    \* ---- core/logger.go ------------------------------------------------
    logChan,           \* AsyncRequestLogger.logChan: the records buffered in the channel
    batch,             \* workerLoop's local batch
    logger,            \* the worker's and Close's positions, and which channels are closed
    logCall,           \* the goroutine inside Log: its position and argument
    requestLogs,       \* the request_logs table
    modelStats,        \* the model_stats table: model_config_id -> row
    \* ---- history of the logger (not program state) ----------------------
    logSeq,            \* records created so far (the next record is number logSeq + 1)
    accepted,          \* the records Log has put into logChan
    lastLog,           \* the Log call that finished in the last step, if any
    \* ---- routing tokens (core/router.go ParseModelRouting) --------------
    parseGroups,       \* the snapshot the parser reads: group id -> UpstreamModel of its models
    parseIn,           \* the `model` string of the request
    parseRet,          \* what the parser returned for it, if it has run
    \* ---- SSE block splitter (HandleClaudeMessage) ------------------------
    sseUpstream,       \* the bytes of the stream that have not been read yet
    lineBuffer,        \* lineBuffer: the bytes read and not yet cut into a block
    sseBlocks,         \* the blocks (fullBlock) handed on so far, in order
    \* ---- history of the splitter (not program state) ---------------------
    sseRead,           \* all the bytes read so far
    lastChunk,         \* the chunk read in the last step
    \* ---- adapters' stream paths (core/adapter) ---------------------------
    adapterCall,       \* the adapter in use, the upstream stream left to read and how
                       \* it ends, where the handler is and the error it returned
    outbound,          \* the frames written to the client so far
    \* ---- the repository behind the router (gorm.DB) ----------------------
    db,                \* the rows of gateway_settings, model_groups, model_configs
                       \* and api_keys
    routerBuild,       \* which loadData the router runs: router.go or part_007
    gatewaySettings,   \* r.gatewaySettings: the settings row the router holds
    refreshErr         \* what the last RefreshData returned ("" for nil)

kmVars == <<states, now, kmCall, kmRet, deadCalled, lastCd>>
rtVars == <<modelGroups, keyMap, globalRRCounters, req, upstreamCalls, lastAttempt>>
lbVars == <<lbBuild, groupStates, lbRet>>
logVars == <<logChan, batch, logger, logCall, requestLogs, modelStats,
             logSeq, accepted, lastLog>>
parseVars == <<parseGroups, parseIn, parseRet>>
sseVars == <<sseUpstream, lineBuffer, sseBlocks, sseRead, lastChunk>>
adapterVars == <<adapterCall, outbound>>
repoVars == <<db, routerBuild, gatewaySettings, refreshErr>>
vars   == <<kmVars, rtVars, lbVars, logVars, parseVars, sseVars, adapterVars, repoVars>>
notKM  == <<rtVars, lbVars, logVars, parseVars, sseVars, adapterVars, repoVars>>
notRt  == <<kmVars, lbVars, logVars, parseVars, sseVars, adapterVars, repoVars>>
notLB  == <<kmCall, kmRet, deadCalled, lastCd, rtVars, logVars, parseVars, sseVars,
            adapterVars, repoVars>>
notLog == <<kmVars, rtVars, lbVars, parseVars, sseVars, adapterVars, repoVars>>
notParse == <<kmVars, rtVars, lbVars, logVars, sseVars, adapterVars, repoVars>>
notSSE == <<kmVars, rtVars, lbVars, logVars, parseVars, adapterVars, repoVars>>
notAdapter == <<kmVars, rtVars, lbVars, logVars, parseVars, sseVars, repoVars>>

(***************************************************************************)
(* core/key_manager.go                                                     *)
(***************************************************************************)
KeyStatusCooldown == "Cooldown"
KeyStatusDead     == "Dead"

\* A KeyState value; UnlockTime is the zero time for a Dead entry.
KeyState(status, unlock) == [Status |-> status, UnlockTime |-> unlock]

\* Go map operations on `states`.
MapSet(m, k, v) == [x \in (DOMAIN m) \cup {k} |-> IF x = k THEN v ELSE m[x]]
MapDelete(m, k) == [x \in (DOMAIN m) \ {k} |-> m[x]]

\* time.Time.After: strictly later.
AfterInclusive(t, u) == t >= u
After(t, u) == t > u

\* m.states[key] = KeyState{Cooldown, time.Now().Add(duration)}
CooldownStates(st, t, k, d) == MapSet(st, k, KeyState(KeyStatusCooldown, t + d))
\* m.states[key] = KeyState{Status: Dead}
DeadStates(st, k) == MapSet(st, k, KeyState(KeyStatusDead, 0))
\* delete(m.states, key)
AvailableStates(st, k) == MapDelete(st, k)

\* A goroutine inside IsAvailable: pc, key and snap are the call's own state
\* (`state` of line 69); dead, at and cd are history kept for the properties.
NoCall == [pc |-> "idle", key |-> "", snap |-> KeyState("none", 0),
           dead |-> FALSE, at |-> 0, cd |-> [t |-> -1, d |-> 0]]
NoRet  == [key |-> ""]
NoCd   == [t |-> -1, d |-> 0]

\* An explicit MarkAvailable(k) ends the "dead since" history of the calls in flight on k.
ClearDead(calls, k) ==
    [p \in DOMAIN calls |->
        IF calls[p].pc # "idle" /\ calls[p].key = k
        THEN [calls[p] EXCEPT !.dead = FALSE] ELSE calls[p]]

MarkCooldown(k, d) ==
    /\ states' = CooldownStates(states, now, k, d)
    /\ lastCd' = [lastCd EXCEPT ![k] = [t |-> now, d |-> d]]
    /\ kmRet' = NoRet
    /\ UNCHANGED <<now, kmCall, deadCalled>>
    /\ UNCHANGED notKM

MarkDead(k) ==
    /\ states' = DeadStates(states, k)
    /\ deadCalled' = [deadCalled EXCEPT ![k] = TRUE]
    /\ lastCd' = [lastCd EXCEPT ![k] = NoCd]
    /\ kmRet' = NoRet
    /\ UNCHANGED <<now, kmCall>>
    /\ UNCHANGED notKM

MarkAvailable(k) ==
    /\ states' = AvailableStates(states, k)
    /\ deadCalled' = [deadCalled EXCEPT ![k] = FALSE]
    /\ lastCd' = [lastCd EXCEPT ![k] = NoCd]
    /\ kmCall' = ClearDead(kmCall, k)
    /\ kmRet' = NoRet
    /\ UNCHANGED now
    /\ UNCHANGED notKM

\* What a call hands back, with what the history says of it:
\*   at       the clock value the call read (the time of the call)
\*   cd       the MarkCooldown(t, d) whose entry was in the store when the clock
\*            was read, NoCd if there was none
\*   dead     MarkDead(key) was called before the call began and no explicit
\*            MarkAvailable(key) was called from then until the return
\*   evicted  the store holds no entry for the key when the call returns
Returned(k, result, at, cd, dead, st) ==
    [key |-> k, result |-> result, at |-> at, cd |-> cd, dead |-> dead,
     evicted |-> k \notin DOMAIN st]

\* IsAvailable, lines 68-78: read the entry under the read lock; an absent
\* entry and a Dead one return at once.
IsAvailableRead(p, k) ==
    /\ kmCall[p].pc = "idle"
    /\ IF k \notin DOMAIN states
       THEN /\ kmRet' = Returned(k, TRUE, now, NoCd, deadCalled[k], states)
            /\ UNCHANGED kmCall
       ELSE IF states[k].Status = KeyStatusDead
       THEN /\ kmRet' = Returned(k, FALSE, now, NoCd, deadCalled[k], states)
            /\ UNCHANGED kmCall
       ELSE /\ kmCall' = [kmCall EXCEPT ![p] =
                    [NoCall EXCEPT !.pc = "check", !.key = k, !.snap = states[k],
                                   !.dead = deadCalled[k]]]
            /\ kmRet' = NoRet
    /\ UNCHANGED <<states, now, deadCalled, lastCd>>
    /\ UNCHANGED notKM

\* IsAvailable, lines 80-86: the clock is read after the lock is released.
IsAvailableCheck(p) ==
    /\ kmCall[p].pc = "check"
    /\ LET c == kmCall[p]
           cd == IF c.key \in DOMAIN states /\ states[c.key] = c.snap
                 THEN lastCd[c.key] ELSE NoCd
       IN  IF After(now, c.snap.UnlockTime)
           THEN /\ kmCall' = [kmCall EXCEPT ![p] =
                        [c EXCEPT !.pc = "evict", !.at = now, !.cd = cd]]
                /\ kmRet' = NoRet
           ELSE /\ kmRet' = Returned(c.key, FALSE, now, cd, c.dead, states)
                /\ kmCall' = [kmCall EXCEPT ![p] = NoCall]
    /\ UNCHANGED <<states, now, deadCalled, lastCd>>
    /\ UNCHANGED notKM

\* IsAvailable, lines 83-84: m.MarkAvailable(key); return true. The entry the
\* call deletes is whatever the store holds by then.
IsAvailableEvict(p) ==
    /\ kmCall[p].pc = "evict"
    /\ LET c == kmCall[p] IN
        /\ states' = AvailableStates(states, c.key)
        /\ lastCd' = [lastCd EXCEPT ![c.key] = NoCd]
        /\ kmRet' = Returned(c.key, TRUE, c.at, c.cd, c.dead, states')
        /\ kmCall' = [kmCall EXCEPT ![p] = NoCall]
    /\ UNCHANGED <<now, deadCalled>>
    /\ UNCHANGED notKM

Tick ==
    /\ now < MaxTime
    /\ now' = now + 1
    /\ kmRet' = NoRet
    /\ UNCHANGED <<states, kmCall, deadCalled, lastCd>>
    /\ UNCHANGED notKM

NewKeyStateManager ==
    /\ states = <<>>
    /\ now = 0
    /\ kmCall = [p \in Procs |-> NoCall]
    /\ kmRet = NoRet
    /\ deadCalled = [k \in Keys |-> FALSE]
    /\ lastCd = [k \in Keys |-> NoCd]

\* No router has been constructed.
NoRouter ==
    /\ modelGroups = <<>>
    /\ keyMap = <<>>
    /\ globalRRCounters = <<>>
    /\ req = [pc |-> "idle"]
    /\ upstreamCalls = 0
    /\ lastAttempt = [outcome |-> Outcome("none", 0, <<>>)]

\* No load balancer has been constructed.
NoLoadBalancer ==
    /\ lbBuild = "none"
    /\ groupStates = <<>>
    /\ lbRet = [err |-> "none"]

\* No logger has been constructed.
NoLogger ==
    /\ logChan = <<>>
    /\ batch = <<>>
    /\ logger = [worker |-> "none"]
    /\ logCall = [pc |-> "none"]
    /\ requestLogs = {}
    /\ modelStats = <<>>
    /\ logSeq = 0
    /\ accepted = {}
    /\ lastLog = [result |-> "none"]

\* No routing token is being parsed.
NoParser ==
    /\ parseGroups = <<>>
    /\ parseIn = <<>>
    /\ parseRet = [fn |-> "none"]

\* No stream is being split.
NoStream ==
    /\ sseUpstream = <<>>
    /\ lineBuffer = <<>>
    /\ sseBlocks = <<>>
    /\ sseRead = <<>>
    /\ lastChunk = <<>>

\* No adapter is handling a response.
NoAdapter ==
    /\ adapterCall = [pc |-> "none"]
    /\ outbound = <<>>

\* No repository is attached.
NoRepository ==
    /\ db = [groups |-> <<>>, keys |-> <<>>]
    /\ routerBuild = "none"
    /\ gatewaySettings = 0
    /\ refreshErr = ""

\* The components a specification leaves unconstructed.
NoTools == NoParser /\ NoStream /\ NoAdapter /\ NoRepository

InitKM == NewKeyStateManager /\ NoRouter /\ NoLoadBalancer /\ NoLogger /\ NoTools

NextKM ==
    \/ \E k \in Keys, d \in Durations : MarkCooldown(k, d)
    \/ \E k \in Keys : MarkDead(k)
    \/ \E k \in Keys : MarkAvailable(k)
    \/ \E p \in Procs, k \in Keys : IsAvailableRead(p, k)
    \/ \E p \in Procs : IsAvailableCheck(p)
    \/ \E p \in Procs : IsAvailableEvict(p)
    \/ Tick

SpecKM == InitKM /\ [][NextKM]_vars

(***************************************************************************)
(* core/router.go - StatelessModelRouter                                   *)
(***************************************************************************)
MinRetries == 3     \* router.go: "at least 3"
MaxRetries == 12    \* router.go: "at most 12"

\* A *int: the empty sequence is nil, <<i>> points to i.
Nil == <<>>
Ptr(i) == <<i>>

RECURSIVE SumKeyCounts(_, _)
SumKeyCounts(km, ids) ==
    IF ids = <<>> THEN 0
    ELSE (IF Head(ids) \in DOMAIN km THEN Len(km[Head(ids)]) ELSE 0)
         + SumKeyCounts(km, Tail(ids))

\* The models of a group, [] for a group the snapshot does not hold.
GroupModels(mg, g) == IF g \in DOMAIN mg THEN mg[g].Models ELSE <<>>

\* CalculateMaxRetries: int(float64(totalKeys) * 1.5), at least 3, at most 12.
Clamp(x, lo, hi) == IF x < lo THEN lo ELSE IF x > hi THEN hi ELSE x
CalculateMaxRetriesUncapped(mg, km, g) ==
    IF GroupModels(mg, g) = <<>> THEN MinRetries
    ELSE LET n == (3 * SumKeyCounts(km, mg[g].Models)) \div 2
         IN  IF n < MinRetries THEN MinRetries ELSE n
CalculateMaxRetries(mg, km, g) ==
    IF GroupModels(mg, g) = <<>> THEN MinRetries
    ELSE Clamp((3 * SumKeyCounts(km, mg[g].Models)) \div 2, MinRetries, MaxRetries)

\* GetModelKeys: the credentials of a model, and whether the model is known.
GetModelKeys(km, id) ==
    IF id \in DOMAIN km THEN [keys |-> km[id], ok |-> TRUE]
    ELSE [keys |-> <<>>, ok |-> FALSE]

\* getGroupCounter + atomic.AddUint64: the counter map after the increment.
CounterValue(ctrs, g) == IF g \in DOMAIN ctrs THEN ctrs[g] ELSE 0
AddCounter(ctrs, g) == MapSet(ctrs, g, CounterValue(ctrs, g) + 1)

\* GetInitialModelIndex: the index, and the counters it leaves behind.
GetInitialModelIndex(mg, ctrs, g) ==
    LET totalModels == Len(GroupModels(mg, g)) IN
    IF g \notin DOMAIN mg \/ totalModels = 0
    THEN [index |-> 0, counters |-> ctrs]
    ELSE IF mg[g].Strategy = "round_robin"
    THEN LET newCounters == AddCounter(ctrs, g)
         IN  [index |-> (newCounters[g] - 1) % totalModels, counters |-> newCounters]
    ELSE [index |-> 0, counters |-> ctrs]

\* The group that owns a model (GetInitialKeyIndex scans the groups for it).
OwnersOf(mg, id) == {g \in DOMAIN mg : \E i \in 1..Len(mg[g].Models) : mg[g].Models[i] = id}

\* GetInitialKeyIndex: reads the counter of the model's group, does not add.
GetInitialKeyIndex(mg, km, ctrs, id) ==
    IF OwnersOf(mg, id) = {} \/ id \notin DOMAIN km \/ Len(km[id]) = 0 THEN 0
    ELSE LET g == CHOOSE x \in OwnersOf(mg, id) : TRUE IN
         IF mg[g].Strategy = "round_robin"
         THEN IF g \notin DOMAIN ctrs THEN 0 ELSE ctrs[g] % Len(km[id])
         ELSE 0

IsClientError(statusCode) ==
    statusCode >= 400 /\ statusCode < 500 /\ statusCode \notin {401, 403, 429}
IsAuthError(statusCode) == statusCode \in {401, 403, 429}
IsServerError(statusCode) == statusCode >= 500

\* IsHardError(statusCode, err): err is the error's message, Nil for no error.
HardErrorPatterns == {"connection refused", "no such host", "timeout",
                      "network unreachable", "dns resolution failed",
                      "ssl certificate", "tls handshake"}
IsHardError(statusCode, err) ==
    \/ statusCode \in {400, 404, 405}
    \/ err # Nil /\ Head(err) \in HardErrorPatterns

(***************************************************************************)
(* core/proxy.go - ProxyHandlerStateless                                   *)
(***************************************************************************)

\* advanceCursors: the cursors it leaves and the value it returns.
Cursors(m, k, ok) == [modelCursor |-> m, keyCursor |-> k, ok |-> ok]

\* An advance that moves on to the next model whether or not the request is pinned.
advanceCursorsUnpinned(modelCursor, keyCursor, totalModels, totalKeys, isPinned, strategy) ==
    IF totalKeys = 0 THEN Cursors(modelCursor, keyCursor, FALSE)
    ELSE IF keyCursor < totalKeys - 1 THEN Cursors(modelCursor, keyCursor + 1, TRUE)
    ELSE IF totalModels = 0 THEN Cursors(modelCursor, keyCursor, FALSE)
    ELSE IF modelCursor + 1 < totalModels THEN Cursors(modelCursor + 1, 0, TRUE)
    ELSE Cursors(0, 0, TRUE)

advanceCursors(modelCursor, keyCursor, totalModels, totalKeys, isPinned, strategy) ==
    IF totalKeys = 0 THEN Cursors(modelCursor, keyCursor, FALSE)
    ELSE IF keyCursor < totalKeys - 1 THEN Cursors(modelCursor, keyCursor + 1, TRUE)
    ELSE IF isPinned THEN Cursors(modelCursor, keyCursor, FALSE)
    ELSE IF totalModels = 0 THEN Cursors(modelCursor, keyCursor, FALSE)
    ELSE IF modelCursor + 1 < totalModels THEN Cursors(modelCursor + 1, 0, TRUE)
    ELSE IF strategy = "round_robin" THEN Cursors(0, 0, TRUE)
    ELSE Cursors(modelCursor + 1, 0, FALSE)

\* A skip that only moves to the next credential of the same model.
skipToNextKey(modelCursor, keyCursor, totalModels, isPinned, strategy) ==
    IF isPinned THEN Cursors(modelCursor, keyCursor, FALSE)
    ELSE Cursors(modelCursor, keyCursor + 1, TRUE)

skipToNextModel(modelCursor, keyCursor, totalModels, isPinned, strategy) ==
    IF isPinned THEN Cursors(modelCursor, keyCursor, FALSE)
    ELSE IF modelCursor + 1 < totalModels THEN Cursors(modelCursor + 1, 0, TRUE)
    ELSE IF strategy = "round_robin" THEN Cursors(0, 0, TRUE)
    ELSE Cursors(modelCursor + 1, 0, FALSE)

\* ProxyRequest lines 232-247: from a model without credentials, step to the
\* next model (wrapping) until one has credentials; ok is false when the walk
\* comes back to where it began.
RECURSIVE nextModelWithKeys(_, _, _, _)
nextModelWithKeys(models, km, modelCursor, originalModelIndex) ==
    LET next == (modelCursor + 1) % Len(models)
        nextKeys == GetModelKeys(km, models[next + 1])
    IN  IF nextKeys.ok /\ Len(nextKeys.keys) > 0 THEN Cursors(next, 0, TRUE)
        ELSE IF next = originalModelIndex THEN Cursors(next, 0, FALSE)
        ELSE nextModelWithKeys(models, km, next, originalModelIndex)

\* The pre-check passes for every group that has a model.
hasModels(km, models) == Len(models) > 0

\* ProxyRequest lines 167-173.
hasAvailableKeys(km, models) ==
    \E i \in 1..Len(models) :
        GetModelKeys(km, models[i]).ok /\ Len(GetModelKeys(km, models[i]).keys) > 0

\* The locals of ProxyRequest. pc: "idle" (no request), "keyidx" (between
\* GetInitialModelIndex and GetInitialKeyIndex), "loop" (at the head of the
\* attempt loop), "done" (the response has been sent; status is its code).
\* newCounter is the value GetInitialModelIndex got from its atomic add (0
\* when it made none).  snapshotKeyMap is history, not a local: the keyMap of
\* the snapshot GetModelGroup took the group from.
RoutingInfo(g, pinned, index) == [GroupID |-> g, IsPinned |-> pinned, ModelIndex |-> index]
NoGroup == [GroupID |-> "", Strategy |-> "", Models |-> <<>>]
NoReq == [pc |-> "idle", routing |-> RoutingInfo("", FALSE, Nil), group |-> NoGroup,
          maxAttempts |-> 0, modelCursor |-> 0, keyCursor |-> 0, attempt |-> 0,
          status |-> 0, newCounter |-> 0, snapshotKeyMap |-> <<>>]
NoAttempt == [outcome |-> Outcome("none", 0, <<>>)]

\* What one pass of the loop did: the model and credential it used, what came
\* of it, whether an HTTP call went out, the value the cursor helper returned
\* and the UpdateStats call made (Nil for none).
Attempt(index, id, key, outcome, sent, ok, stat) ==
    [outcome |-> outcome, modelIndex |-> index, modelID |-> id, key |-> key,
     sent |-> sent, ok |-> ok, stat |-> stat]

Routings ==
    {RoutingInfo(g, FALSE, Nil) : g \in RequestedGroups}
    \cup {RoutingInfo(g, TRUE, Ptr(i)) : g \in RequestedGroups, i \in 0..MaxModels}

\* sendFinalErrorResponse(c, statusCode, nil, err)
sendFinalErrorResponse(r, statusCode) == [r EXCEPT !.pc = "done", !.status = statusCode]

\* ProxyRequest lines 153-195: look the group up, compute the budget, check
\* that some model has credentials, and set the model cursor.
StartRequest(routing) ==
    /\ req.pc = "idle"
    /\ LET g == routing.GroupID
           r0 == [NoReq EXCEPT !.routing = routing]
       IN  IF g \notin DOMAIN modelGroups
           THEN /\ req' = sendFinalErrorResponse(r0, 404)
                /\ UNCHANGED globalRRCounters
           ELSE LET group == modelGroups[g]
                    r1 == [r0 EXCEPT !.group = group, !.snapshotKeyMap = keyMap,
                                     !.maxAttempts = CalculateMaxRetries(modelGroups, keyMap, g)]
                IN  IF ~hasAvailableKeys(keyMap, group.Models)
                    THEN /\ req' = sendFinalErrorResponse(r1, 503)
                         /\ UNCHANGED globalRRCounters
                    ELSE IF routing.IsPinned /\ routing.ModelIndex # Nil
                    THEN /\ req' = IF Head(routing.ModelIndex) >= 0
                                      /\ Head(routing.ModelIndex) < Len(group.Models)
                                   THEN [r1 EXCEPT !.pc = "loop",
                                                   !.modelCursor = Head(routing.ModelIndex),
                                                   !.keyCursor = 0]
                                   ELSE sendFinalErrorResponse(r1, 400)
                         /\ UNCHANGED globalRRCounters
                    ELSE LET init == GetInitialModelIndex(modelGroups, globalRRCounters, g)
                         IN  /\ CounterValue(init.counters, g) <= MaxCounter
                             /\ globalRRCounters' = init.counters
                             /\ req' = [r1 EXCEPT !.pc = "keyidx", !.modelCursor = init.index,
                                                   !.newCounter =
                                                       IF init.counters = globalRRCounters
                                                       THEN 0
                                                       ELSE CounterValue(init.counters, g)]
    /\ upstreamCalls' = 0
    /\ lastAttempt' = NoAttempt
    /\ UNCHANGED <<modelGroups, keyMap>>
    /\ UNCHANGED notRt

\* ProxyRequest lines 197-201: the key cursor, from the counter as it is now.
InitKeyCursor ==
    /\ req.pc = "keyidx"
    /\ LET models == req.group.Models
           initialModel == models[(req.modelCursor % Len(models)) + 1]
       IN  req' = [req EXCEPT !.pc = "loop",
                              !.keyCursor = GetInitialKeyIndex(modelGroups, keyMap,
                                                               globalRRCounters, initialModel)]
    /\ lastAttempt' = NoAttempt
    /\ UNCHANGED <<modelGroups, keyMap, globalRRCounters, upstreamCalls>>
    /\ UNCHANGED notRt

\* Another request runs GetInitialModelIndex on the group. The attempt loop
\* does not read the counter, so the step is taken only where this request
\* can see it: before it starts and before it reads its key index.
OtherRequest(g) ==
    /\ req.pc \in {"idle", "keyidx"}
    /\ g \in DOMAIN modelGroups
    /\ LET init == GetInitialModelIndex(modelGroups, globalRRCounters, g)
       IN  /\ init.counters # globalRRCounters
           /\ CounterValue(init.counters, g) <= MaxCounter
           /\ globalRRCounters' = init.counters
    /\ lastAttempt' = NoAttempt
    /\ UNCHANGED <<modelGroups, keyMap, req, upstreamCalls>>
    /\ UNCHANGED notRt

\* ProxyRequest lines 205-251: a pass of the loop that finds the selected
\* model without credentials.
LoopNoKeys ==
    /\ req.pc = "loop"
    /\ req.attempt < req.maxAttempts
    /\ LET models == req.group.Models
           selectedModelIndex == req.modelCursor % Len(models)
           selectedModel == models[selectedModelIndex + 1]
           modelKeys == GetModelKeys(keyMap, selectedModel)
       IN  /\ modelKeys.ok /\ Len(modelKeys.keys) = 0
           /\ IF req.routing.IsPinned
              THEN /\ req' = sendFinalErrorResponse(req, 503)
                   /\ lastAttempt' = Attempt(selectedModelIndex, selectedModel, Nil,
                                             Outcome("nokeys", 0, Nil), FALSE, FALSE, Nil)
              ELSE LET c == nextModelWithKeys(models, keyMap, req.modelCursor, req.modelCursor)
                   IN  /\ req' = IF c.ok
                                 THEN [req EXCEPT !.modelCursor = c.modelCursor,
                                                  !.keyCursor = c.keyCursor,
                                                  !.attempt = @ + 1]
                                 ELSE sendFinalErrorResponse(req, 503)
                       /\ lastAttempt' = Attempt(selectedModelIndex, selectedModel, Nil,
                                                 Outcome("nokeys", 0, Nil), FALSE, c.ok, Nil)
    /\ UNCHANGED <<modelGroups, keyMap, globalRRCounters, upstreamCalls>>
    /\ UNCHANGED notRt

\* ProxyRequest lines 205-397: a pass of the loop on a model with credentials;
\* outcome is what the upstream call comes to. The request body always
\* marshals and the upstream URL of a stored model is taken to parse, so the
\* call is always sent (lines 267-272 and 288-293 are not taken).
LoopAttempt(outcome) ==
    /\ req.pc = "loop"
    /\ req.attempt < req.maxAttempts
    /\ LET models == req.group.Models
           selectedModelIndex == req.modelCursor % Len(models)
           selectedModel == models[selectedModelIndex + 1]
           modelKeys == GetModelKeys(keyMap, selectedModel)
           totalKeys == Len(modelKeys.keys)
           selectedKey == modelKeys.keys[(req.keyCursor % totalKeys) + 1]
           adv == advanceCursors(req.modelCursor, req.keyCursor, Len(models), totalKeys,
                                 req.routing.IsPinned, req.group.Strategy)
           skip == skipToNextModel(req.modelCursor, req.keyCursor, Len(models),
                                   req.routing.IsPinned, req.group.Strategy)
           sent == TRUE
           responded == outcome.kind = "response"
           moved == IF responded /\ IsHardError(outcome.status, Nil) THEN skip ELSE adv
           stat == IF responded
                   THEN Ptr([modelIndex |-> selectedModelIndex,
                             success |-> outcome.status = 200])
                   ELSE Nil
       IN  /\ modelKeys.ok /\ totalKeys > 0
           /\ upstreamCalls' = IF sent THEN upstreamCalls + 1 ELSE upstreamCalls
           /\ IF responded /\ outcome.status = 200
              THEN /\ req' = [req EXCEPT !.pc = "done", !.status = 200]
                   /\ lastAttempt' = Attempt(selectedModelIndex, selectedModel,
                                             Ptr(selectedKey), outcome, sent, TRUE, stat)
              ELSE /\ req' = [req EXCEPT !.modelCursor = moved.modelCursor,
                                         !.keyCursor = moved.keyCursor,
                                         !.attempt = @ + 1]
                   /\ lastAttempt' = Attempt(selectedModelIndex, selectedModel,
                                             Ptr(selectedKey), outcome, sent, moved.ok, stat)
    /\ UNCHANGED <<modelGroups, keyMap, globalRRCounters>>
    /\ UNCHANGED notRt

\* ProxyRequest lines 400-402: the budget is spent.
LoopExhausted ==
    /\ req.pc = "loop"
    /\ req.attempt >= req.maxAttempts
    /\ req' = sendFinalErrorResponse(req, 502)
    /\ lastAttempt' = NoAttempt
    /\ UNCHANGED <<modelGroups, keyMap, globalRRCounters, upstreamCalls>>
    /\ UNCHANGED notRt

\* ProxyRequest has returned; the handler is ready for the next request.
Respond ==
    /\ req.pc = "done"
    /\ req' = NoReq
    /\ upstreamCalls' = 0
    /\ lastAttempt' = NoAttempt
    /\ UNCHANGED <<modelGroups, keyMap, globalRRCounters>>
    /\ UNCHANGED notRt

\* The credentials of model id: distinct values, one per key row.
KeyValue(id, j) == <<"key", id, j>>

\* loadData: the snapshot built from a database with one group of n models,
\* model i (id i) holding count[i] credentials.
LoadedGroups(strategy, n) ==
    [g \in GroupIDs |-> [GroupID |-> g, Strategy |-> strategy, Models |-> [i \in 1..n |-> i]]]
LoadedKeys(n, count) == [i \in 1..n |-> [j \in 1..count[i] |-> KeyValue(i, j)]]

\* NewStatelessModelRouter: loadData on whatever the database holds.
NewStatelessModelRouter ==
    /\ \E n \in 0..MaxModels, strategy \in Strategies :
         \E count \in [1..n -> KeyCounts] :
            /\ modelGroups = LoadedGroups(strategy, n)
            /\ keyMap = LoadedKeys(n, count)
    /\ globalRRCounters = <<>>
    /\ req = NoReq
    /\ upstreamCalls = 0
    /\ lastAttempt = NoAttempt

InitProxy == NewKeyStateManager /\ NewStatelessModelRouter /\ NoLoadBalancer /\ NoLogger
             /\ NoTools

NextProxy ==
    \/ \E routing \in Routings : StartRequest(routing)
    \/ InitKeyCursor
    \/ \E g \in GroupIDs : OtherRequest(g)
    \/ LoopNoKeys
    \/ \E outcome \in Outcomes : LoopAttempt(outcome)
    \/ LoopExhausted
    \/ Respond

SpecProxy == InitProxy /\ [][NextProxy]_vars

(***************************************************************************)
(* LoadBalancer: the strategies (unnamed/part_006), Route and RefreshData  *)
(* (unnamed/part_008) and the earlier Route (unnamed/part_009).            *)
(***************************************************************************)
\* The two Route implementations of the repository.
LBBuilds == {"part_008", "part_009"}

\* The credentials a database may hold, in row order, and the databases
\* considered: the number of credentials of each model, in model order.
LBKeys   == <<"K1", "K2", "K3">>
LBShapes == {<<>>, <<3>>, <<1, 1>>, <<0, 2>>}
LBDurations == {1}

\* The `model` field of a request: "group" (index Nil) or "group$n" (index Ptr(n)).
RequestModel(g, index) == [group |-> g, index |-> index]
LBRequests ==
    {RequestModel(g, Nil) : g \in RequestedGroups}
    \cup {RequestModel(g, Ptr(n)) : g \in GroupIDs, n \in 0..3}

\* RoundRobinStrategy.Select and FallbackStrategy.Select: the index chosen
\* among n > 0 models (the counter is at least 1 here).
RoundRobinSelect(n, counter) == (counter - 1) % n
FallbackSelect(n, counter) == 0

\* Route: the strategy registered under the group's strategy name,
\* round_robin for an empty or unregistered name.
RegisteredStrategies == {"round_robin", "fallback"}
ResolveStrategy(name) ==
    IF name = "" THEN "round_robin"
    ELSE IF name \in RegisteredStrategies THEN name ELSE "round_robin"
StrategySelect(name, n, counter) ==
    IF ResolveStrategy(name) = "fallback" THEN FallbackSelect(n, counter)
    ELSE RoundRobinSelect(n, counter)

\* IsAvailable(k) called by one goroutine with no other in between: its
\* answer, and the store it leaves (an expired Cooldown entry is evicted).
IsAvailableNow(st, t, k) ==
    \/ k \notin DOMAIN st
    \/ st[k].Status = KeyStatusCooldown /\ After(t, st[k].UnlockTime)
IsAvailableStates(st, t, k) ==
    IF k \in DOMAIN st /\ IsAvailableNow(st, t, k) THEN AvailableStates(st, k) ELSE st

\* The key loop of Route: the first key, scanning from index start and
\* wrapping, that IsAvailable accepts; "" when there is none.
ScanIndexStuck(start, i, n) == start % n
ScanIndex(start, i, n) == (start + i) % n
FirstUnchecked(st, t, keys, start) == keys[ScanIndex(start, 0, Len(keys)) + 1]
FirstAvailable(st, t, keys, start) ==
    LET n == Len(keys)
        hits == {i \in 0..n - 1 : IsAvailableNow(st, t, keys[ScanIndex(start, i, n) + 1])}
    IN  IF hits = {} THEN ""
        ELSE keys[ScanIndex(start, CHOOSE i \in hits : \A j \in hits : i <= j, n) + 1]

\* What a Route call returned: err is "" on success; modelIndex is -1 and
\* key is "" when the call did not get that far; start is the index the key
\* loop began at.
RouteResult(err, g, pinned, modelIndex, key, start) ==
    [err |-> err, group |-> g, pinned |-> pinned, modelIndex |-> modelIndex,
     key |-> key, start |-> start]
Routed(result, gs, st) == [result |-> result, groupStates |-> gs, states |-> st]

\* pinIndex of part_008 lines 139-148; part_009 takes the whole string as the
\* group id, so a string with "$" names no group there.
PinIndex(build, requestModel) ==
    IF build = "part_008" /\ requestModel.index # Nil /\ Head(requestModel.index) > 0
    THEN Head(requestModel.index) - 1 ELSE -1
GroupExists(build, gs, requestModel) ==
    /\ requestModel.group \in DOMAIN gs
    /\ build = "part_009" => requestModel.index = Nil

\* Route, run by one goroutine with no other in between: the value returned
\* and the group states and health store it leaves.
Route(build, gs, st, t, requestModel) ==
    LET g == requestModel.group
        pinIndex == PinIndex(build, requestModel)
        pinned == pinIndex # -1
    IN  IF ~GroupExists(build, gs, requestModel) \/ Len(gs[g].Models) = 0
        THEN Routed(RouteResult("group not found", g, pinned, -1, "", -1), gs, st)
        ELSE IF pinned /\ pinIndex >= Len(gs[g].Models)
        THEN Routed(RouteResult("index out of bounds", g, pinned, -1, "", -1), gs, st)
        ELSE
        LET state == gs[g]
            n == Len(state.Models)
            currentCount == IF pinned THEN state.RequestCounter ELSE state.RequestCounter + 1
            modelIndex == IF pinned THEN pinIndex
                          ELSE StrategySelect(state.Config.Strategy, n, currentCount)
            keys == state.Keys[state.Models[modelIndex + 1]]
            count == IF build = "part_008" THEN currentCount + 1 ELSE currentCount
            start == IF build = "part_008" THEN count % Len(keys)
                     ELSE (currentCount - 1) % Len(keys)
            finalKey == FirstAvailable(st, t, keys, start)
        IN  IF Len(keys) = 0
            THEN Routed(RouteResult("no keys", g, pinned, modelIndex, "", -1),
                        [gs EXCEPT ![g].RequestCounter = currentCount], st)
            ELSE IF finalKey = ""
            THEN Routed(RouteResult("all keys unavailable", g, pinned, modelIndex, "", start),
                        [gs EXCEPT ![g].RequestCounter = count], st)
            ELSE Routed(RouteResult("", g, pinned, modelIndex, finalKey, start),
                        [gs EXCEPT ![g].RequestCounter = count],
                        IsAvailableStates(st, t, finalKey))

\* n Route calls in a row on the same request, nothing else in between:
\* the values returned, in order.
RECURSIVE RouteSeq(_, _, _, _, _, _)
RouteSeq(build, gs, st, t, requestModel, n) ==
    IF n = 0 THEN <<>>
    ELSE LET r == Route(build, gs, st, t, requestModel)
         IN  <<r.result>> \o RouteSeq(build, r.groupStates, r.states, t, requestModel, n - 1)

NoRoute == [err |-> "none"]

\* A Route call.
RouteCall(requestModel) ==
    /\ lbBuild \in LBBuilds
    /\ LET r == Route(lbBuild, groupStates, states, now, requestModel)
       IN  /\ \A g \in DOMAIN r.groupStates :
                 r.groupStates[g].RequestCounter <= MaxRequestCounter
           /\ groupStates' = r.groupStates
           /\ states' = r.states
           /\ lbRet' = r.result
    /\ UNCHANGED <<now, lbBuild>>
    /\ UNCHANGED notLB

\* RefreshData: the snapshot built from a database with one group of
\* Len(shape) models, model i (id i) holding the next shape[i] credentials that
\* decrypt; every GroupState is a new object.
RECURSIVE KeysBefore(_, _)
KeysBefore(shape, i) == IF i <= 1 THEN 0 ELSE shape[i - 1] + KeysBefore(shape, i - 1)
GroupState(g, strategy, shape) ==
    [Config |-> [GroupID |-> g, Strategy |-> strategy],
     Models |-> [i \in 1..Len(shape) |-> i],
     Keys   |-> [i \in 1..Len(shape) |->
                    [j \in 1..shape[i] |-> LBKeys[KeysBefore(shape, i) + j]]],
     RequestCounter |-> 0]
RefreshedStates(strategy, shape) ==
    [g \in GroupIDs |-> GroupState(g, strategy, shape)]

RefreshData ==
    /\ lbBuild \in LBBuilds
    /\ \E strategy \in Strategies, shape \in LBShapes :
          groupStates' = RefreshedStates(strategy, shape)
    /\ lbRet' = NoRoute
    /\ UNCHANGED <<states, now, lbBuild>>
    /\ UNCHANGED notLB

\* The users of the load balancer mark credentials in the health store it
\* was given, and time passes.
KeyCooldown(k, d) ==
    /\ lbBuild \in LBBuilds
    /\ states' = CooldownStates(states, now, k, d)
    /\ lbRet' = NoRoute
    /\ UNCHANGED <<now, lbBuild, groupStates>>
    /\ UNCHANGED notLB

KeyDead(k) ==
    /\ lbBuild \in LBBuilds
    /\ states' = DeadStates(states, k)
    /\ lbRet' = NoRoute
    /\ UNCHANGED <<now, lbBuild, groupStates>>
    /\ UNCHANGED notLB

KeyAvailable(k) ==
    /\ lbBuild \in LBBuilds
    /\ states' = AvailableStates(states, k)
    /\ lbRet' = NoRoute
    /\ UNCHANGED <<now, lbBuild, groupStates>>
    /\ UNCHANGED notLB

TimePasses ==
    /\ lbBuild \in LBBuilds
    /\ now < MaxTime
    /\ now' = now + 1
    /\ lbRet' = NoRoute
    /\ UNCHANGED <<states, lbBuild, groupStates>>
    /\ UNCHANGED notLB

\* NewLoadBalancer: RefreshData on whatever the database holds.
NewLoadBalancer ==
    /\ lbBuild \in LBBuilds
    /\ \E strategy \in Strategies, shape \in LBShapes :
          groupStates = RefreshedStates(strategy, shape)
    /\ lbRet = NoRoute

InitLB == NewKeyStateManager /\ NoRouter /\ NewLoadBalancer /\ NoLogger /\ NoTools

NextLB ==
    \/ \E requestModel \in LBRequests : RouteCall(requestModel)
    \/ RefreshData
    \/ \E i \in 1..Len(LBKeys), d \in LBDurations : KeyCooldown(LBKeys[i], d)
    \/ \E i \in 1..Len(LBKeys) : KeyDead(LBKeys[i])
    \/ \E i \in 1..Len(LBKeys) : KeyAvailable(LBKeys[i])
    \/ TimePasses

SpecLB == InitLB /\ [][NextLB]_vars

(***************************************************************************)
(* core/logger.go - AsyncRequestLogger                                     *)
(***************************************************************************)
\* The records a caller may pass to Log.  ModelConfigID 0 is a record that
\* belongs to no model; ptr tells the records apart (Log takes a pointer).
LogModelConfigIDs == {0, 1}
LogStatusCodes    == {199, 200, 429, 499, 500}
LogDurations      == {1}
RequestLog(ptr, modelConfigID, statusCode, duration) ==
    [ptr |-> ptr, ModelConfigID |-> modelConfigID,
     StatusCode |-> statusCode, Duration |-> duration]

\* A send that waits for room in the channel: l.logChan <- log.
BlockingSend(ch, log) ==
    IF Len(ch) < ChanCap
    THEN [chan |-> Append(ch, log), result |-> "enqueued"]
    ELSE [chan |-> ch, result |-> "blocked"]

\* select { case l.logChan <- log: default: warn } on an open channel: the
\* send is taken when the buffer has room, the default branch otherwise.
SelectSend(ch, log) ==
    IF Len(ch) < ChanCap
    THEN [chan |-> Append(ch, log), result |-> "enqueued"]
    ELSE [chan |-> ch, result |-> "dropped"]

\* statDelta and the fold of a batch into statsMap (ModelConfigID -> delta).
\* The test without its exception for 429.
IsSuccessStatusBelow500(statusCode) ==
    statusCode >= 200 /\ statusCode < 500

IsSuccessStatus(statusCode) ==
    statusCode >= 200 /\ statusCode < 500 /\ statusCode # 429

StatDelta(success, error, totalLatency, requestCount) ==
    [Success |-> success, Error |-> error,
     TotalLatency |-> totalLatency, RequestCount |-> requestCount]

\* The fold with a 429 left out of RequestCount.
AddLogToDeltaUncounted(delta, log) ==
    StatDelta(delta.Success + (IF IsSuccessStatus(log.StatusCode) THEN 1 ELSE 0),
              delta.Error + (IF IsSuccessStatus(log.StatusCode) THEN 0 ELSE 1),
              delta.TotalLatency + log.Duration,
              delta.RequestCount + (IF log.StatusCode = 429 THEN 0 ELSE 1))

AddLogToDelta(delta, log) ==
    StatDelta(delta.Success + (IF IsSuccessStatus(log.StatusCode) THEN 1 ELSE 0),
              delta.Error + (IF IsSuccessStatus(log.StatusCode) THEN 0 ELSE 1),
              delta.TotalLatency + log.Duration,
              delta.RequestCount + 1)

RECURSIVE FoldStats(_, _)
FoldStats(statsMap, logs) ==
    IF logs = <<>> THEN statsMap
    ELSE LET log == Head(logs)
             id  == log.ModelConfigID
             old == IF id \in DOMAIN statsMap THEN statsMap[id]
                    ELSE StatDelta(0, 0, 0, 0)
         IN  IF id = 0 THEN FoldStats(statsMap, Tail(logs))
             ELSE FoldStats(MapSet(statsMap, id, AddLogToDelta(old, log)), Tail(logs))

\* A model_stats row, and the increment of the row of one model by a delta
\* (the row is created when the model has none).
ModelStats(success, error, totalLatency, requestCount, totalRequests) ==
    [Success |-> success, Error |-> error, TotalLatency |-> totalLatency,
     RequestCount |-> requestCount, TotalRequests |-> totalRequests]

\* The increment replaced by a plain write of the delta.
UpsertStatsReplace(stats, modelID, delta) ==
    MapSet(stats, modelID,
           ModelStats(delta.Success, delta.Error, delta.TotalLatency,
                      delta.RequestCount, delta.RequestCount))

UpsertStats(stats, modelID, delta) ==
    LET old == IF modelID \in DOMAIN stats THEN stats[modelID]
               ELSE ModelStats(0, 0, 0, 0, 0)
    IN  MapSet(stats, modelID,
               ModelStats(old.Success + delta.Success,
                          old.Error + delta.Error,
                          old.TotalLatency + delta.TotalLatency,
                          old.RequestCount + delta.RequestCount,
                          old.TotalRequests + delta.RequestCount))

RECURSIVE UpsertAll(_, _, _)
UpsertAll(stats, statsMap, modelIDs) ==
    IF modelIDs = {} THEN stats
    ELSE LET modelID == CHOOSE m \in modelIDs : TRUE
         IN  UpsertAll(UpsertStats(stats, modelID, statsMap[modelID]),
                       statsMap, modelIDs \ {modelID})

\* flush(logs): the rows and the stats the database holds afterwards.  The
\* database is taken to accept every statement.  This is the flush of
\* logger.go lines 87-180; the later one (lines 275-359) also starts a
\* goroutine that prunes request_logs to its newest 100 rows.
FlushedLogs(rows, logs) == rows \cup {logs[i] : i \in 1..Len(logs)}
FlushedStats(stats, logs) ==
    LET statsMap == FoldStats(<<>>, logs)
    IN  UpsertAll(stats, statsMap, DOMAIN statsMap)

flush(logs) ==
    IF Len(logs) = 0
    THEN UNCHANGED <<requestLogs, modelStats>>
    ELSE /\ requestLogs' = FlushedLogs(requestLogs, logs)
         /\ modelStats' = FlushedStats(modelStats, logs)

NoLogCall == [pc |-> "idle"]
NoLog     == [result |-> "none"]

\* A goroutine calls Log(log) with a record of its own.
LogCall(modelConfigID, statusCode, duration) ==
    /\ logCall = NoLogCall
    /\ logSeq < MaxLogs
    /\ logSeq' = logSeq + 1
    /\ logCall' = [pc |-> "Log",
                   log |-> RequestLog(logSeq + 1, modelConfigID, statusCode, duration)]
    /\ lastLog' = NoLog
    /\ UNCHANGED <<logChan, batch, logger, requestLogs, modelStats, accepted>>
    /\ UNCHANGED notLog

\* The select statement of Log.  A send on a closed channel panics, whether
\* or not the select has a default branch.
LogSelect ==
    /\ logCall.pc = "Log"
    /\ IF logger.chanClosed
       THEN /\ lastLog' = [result |-> "panic", log |-> logCall.log,
                           full |-> Len(logChan) >= ChanCap, chanClosed |-> TRUE]
            /\ UNCHANGED <<logChan, accepted>>
       ELSE LET sent == SelectSend(logChan, logCall.log)
            IN  /\ sent.result # "blocked"
                /\ logChan' = sent.chan
                /\ accepted' = IF sent.result = "enqueued"
                               THEN accepted \cup {logCall.log} ELSE accepted
                /\ lastLog' = [result |-> sent.result, log |-> logCall.log,
                               full |-> Len(logChan) >= ChanCap, chanClosed |-> FALSE]
    /\ logCall' = NoLogCall
    /\ UNCHANGED <<batch, logger, requestLogs, modelStats, logSeq>>
    /\ UNCHANGED notLog

\* workerLoop, case log := <-l.logChan
WorkerReceive ==
    /\ logger.worker = "loop"
    /\ logChan # <<>>
    /\ logChan' = Tail(logChan)
    /\ LET appended == Append(batch, Head(logChan))
       IN  IF Len(appended) >= BatchSize
           THEN flush(appended) /\ batch' = <<>>
           ELSE batch' = appended /\ UNCHANGED <<requestLogs, modelStats>>
    /\ lastLog' = NoLog
    /\ UNCHANGED <<logger, logCall, logSeq, accepted>>
    /\ UNCHANGED notLog

\* workerLoop, case <-timer.C
WorkerTimer ==
    /\ logger.worker = "loop"
    /\ IF Len(batch) > 0
       THEN flush(batch) /\ batch' = <<>>
       ELSE UNCHANGED <<batch, requestLogs, modelStats>>
    /\ lastLog' = NoLog
    /\ UNCHANGED <<logChan, logger, logCall, logSeq, accepted>>
    /\ UNCHANGED notLog

\* workerLoop, case <-l.quit: ready once quit is closed, and taken whether
\* or not logChan holds records (select picks among the ready cases).
WorkerQuit ==
    /\ logger.worker = "loop"
    /\ logger.quitClosed
    /\ IF Len(batch) > 0
       THEN flush(batch)
       ELSE UNCHANGED <<requestLogs, modelStats>>
    /\ batch' = <<>>
    /\ logger' = [logger EXCEPT !.worker = "exited"]
    /\ lastLog' = NoLog
    /\ UNCHANGED <<logChan, logCall, logSeq, accepted>>
    /\ UNCHANGED notLog

\* Close: close(l.quit)
CloseQuit ==
    /\ logger.closer = "idle"
    /\ logger' = [logger EXCEPT !.closer = "Wait", !.quitClosed = TRUE]
    /\ lastLog' = NoLog
    /\ UNCHANGED <<logChan, batch, logCall, requestLogs, modelStats, logSeq, accepted>>
    /\ UNCHANGED notLog

\* Close: l.wg.Wait() returns once the worker goroutine has returned
CloseWait ==
    /\ logger.closer = "Wait"
    /\ logger.worker = "exited"
    /\ logger' = [logger EXCEPT !.closer = "closeChan"]
    /\ lastLog' = NoLog
    /\ UNCHANGED <<logChan, batch, logCall, requestLogs, modelStats, logSeq, accepted>>
    /\ UNCHANGED notLog

\* Close: close(l.logChan), and Close returns
CloseChan ==
    /\ logger.closer = "closeChan"
    /\ logger' = [logger EXCEPT !.closer = "returned", !.chanClosed = TRUE]
    /\ lastLog' = NoLog
    /\ UNCHANGED <<logChan, batch, logCall, requestLogs, modelStats, logSeq, accepted>>
    /\ UNCHANGED notLog

\* NewAsyncRequestLogger: empty channel, worker started, empty tables.
NewAsyncRequestLogger ==
    /\ logChan = <<>>
    /\ batch = <<>>
    /\ logger = [worker |-> "loop", closer |-> "idle",
                 quitClosed |-> FALSE, chanClosed |-> FALSE]
    /\ logCall = NoLogCall
    /\ requestLogs = {}
    /\ modelStats = <<>>
    /\ logSeq = 0
    /\ accepted = {}
    /\ lastLog = NoLog

InitLog == NewKeyStateManager /\ NoRouter /\ NoLoadBalancer /\ NewAsyncRequestLogger
           /\ NoTools

NextLog ==
    \/ \E m \in LogModelConfigIDs, s \in LogStatusCodes, d \in LogDurations :
          LogCall(m, s, d)
    \/ LogSelect
    \/ WorkerReceive
    \/ WorkerTimer
    \/ WorkerQuit
    \/ CloseQuit
    \/ CloseWait
    \/ CloseChan

SpecLog == InitLog /\ [][NextLog]_vars

(***************************************************************************)
(* core/router.go - ParseModelRouting, and the token split of              *)
(* LoadBalancer.Route (unnamed/part_008).  A string is the sequence of its *)
(* characters.                                                             *)
(***************************************************************************)
TokenChars == {"G", "x", "$", "0", "1", "2", "-", " "}
Digits == <<"0", "1", "2", "3", "4", "5", "6", "7", "8", "9">>

RECURSIVE StringsUpTo(_)
StringsUpTo(n) ==
    IF n = 0 THEN {<<>>}
    ELSE StringsUpTo(n - 1)
         \cup {Append(t, c) : t \in {u \in StringsUpTo(n - 1) : Len(u) = n - 1}, c \in TokenChars}
Tokens == StringsUpTo(MaxTokenLen)

\* strings.Index(str, c): the 0-based position of the first c, -1 for none.
Index(str, c) ==
    IF \E i \in 1..Len(str) : str[i] = c
    THEN (CHOOSE i \in 1..Len(str) : str[i] = c /\ \A j \in 1..(i - 1) : str[j] # c) - 1
    ELSE -1
\* strings.Contains(str, c)
Contains(str, c) == Index(str, c) # -1

\* str[:i] and str[i:] of Go (0-based, end exclusive).
Prefix(str, i) == SubSeq(str, 1, i)
Suffix(str, i) == SubSeq(str, i + 1, Len(str))

\* strings.SplitN(str, sep, 2) for a string that holds sep: the parts before
\* and after its first occurrence.
SplitN2(str, sep) == <<Prefix(str, Index(str, sep)), Suffix(str, Index(str, sep) + 1)>>

\* strings.TrimSpace
RECURSIVE TrimLeft(_)
TrimLeft(str) == IF str # <<>> /\ Head(str) = " " THEN TrimLeft(Tail(str)) ELSE str
RECURSIVE TrimRight(_)
TrimRight(str) ==
    IF str # <<>> /\ str[Len(str)] = " " THEN TrimRight(SubSeq(str, 1, Len(str) - 1)) ELSE str
TrimSpace(str) == TrimRight(TrimLeft(str))

\* strconv.Atoi: an optional sign, then one or more decimal digits.  (A
\* string of at most MaxTokenLen characters cannot overflow an int.)
IsDigit(c) == \E d \in 1..10 : Digits[d] = c
DigitValue(c) == (CHOOSE d \in 1..10 : Digits[d] = c) - 1
RECURSIVE DecimalValue(_)
DecimalValue(ds) ==
    IF ds = <<>> THEN 0
    ELSE 10 * DecimalValue(SubSeq(ds, 1, Len(ds) - 1)) + DigitValue(ds[Len(ds)])
Atoi(str) ==
    LET signed == str # <<>> /\ Head(str) \in {"+", "-"}
        ds == IF signed THEN Tail(str) ELSE str
    IN  IF ds = <<>> \/ \E i \in 1..Len(ds) : ~IsDigit(ds[i])
        THEN [ok |-> FALSE, value |-> 0]
        ELSE [ok |-> TRUE,
              value |-> IF signed /\ Head(str) = "-" THEN 0 - DecimalValue(ds)
                        ELSE DecimalValue(ds)]

\* The pin index of a 1-based index of the token, kept as it is.
KeepOneBased(userIndex) == userIndex
\* targetIndex := userIndex - 1
ToZeroBased(userIndex) == userIndex - 1

\* The models of the snapshot whose UpstreamModel is the token: the group
\* and the first index in it.  (The groups are ranged over in map order, so
\* any group that holds such a model may be the one found.)
ModelMatches(groups, modelInput) ==
    {[groupID |-> g,
      idx |-> (CHOOSE i \in 1..Len(groups[g]) :
                  groups[g][i] = modelInput
                  /\ \A j \in 1..(i - 1) : groups[g][j] # modelInput) - 1] :
        g \in {h \in DOMAIN groups : \E i \in 1..Len(groups[h]) : groups[h][i] = modelInput}}

\* ParseModelRouting(modelInput): the RoutingInfo values it may return.
ParseModelRouting(groups, modelInput) ==
    IF modelInput = <<>> THEN {RoutingInfo(modelInput, FALSE, Nil)}
    ELSE IF ~Contains(modelInput, "$")
    THEN IF ModelMatches(groups, modelInput) # {}
         THEN {RoutingInfo(m.groupID, TRUE, Ptr(m.idx)) : m \in ModelMatches(groups, modelInput)}
         ELSE {RoutingInfo(modelInput, FALSE, Nil)}
    ELSE LET parts == SplitN2(modelInput, "$")
             groupID == TrimSpace(parts[1])
             indexStr == TrimSpace(parts[2])
             userIndex == Atoi(indexStr)
         IN  IF groupID = <<>> THEN {RoutingInfo(modelInput, FALSE, Nil)}
             ELSE IF ~userIndex.ok THEN {RoutingInfo(groupID, FALSE, Nil)}
             ELSE IF userIndex.value < 1 THEN {RoutingInfo(groupID, FALSE, Nil)}
             ELSE {RoutingInfo(groupID, TRUE, Ptr(ToZeroBased(userIndex.value)))}

\* LoadBalancer.Route, part_008 lines 138-148: groupID and pinIndex.
RouteSplit(requestModel) ==
    LET idx == Index(requestModel, "$")
        i == Atoi(Suffix(requestModel, idx + 1))
    IN  IF idx # -1
        THEN [groupID |-> Prefix(requestModel, idx),
              pinIndex |-> IF i.ok /\ i.value > 0 THEN i.value - 1 ELSE -1]
        ELSE [groupID |-> requestModel, pinIndex |-> -1]

NoParse == [fn |-> "none"]

\* The handler parses the `model` string of the request.
ParseModelRoutingCall ==
    /\ parseRet = NoParse
    /\ \E routing \in ParseModelRouting(parseGroups, parseIn) :
          parseRet' = [fn |-> "ParseModelRouting", routing |-> routing]
    /\ UNCHANGED <<parseGroups, parseIn>>
    /\ UNCHANGED notParse

\* Route splits its requestModel argument.
RouteSplitCall ==
    /\ parseRet = NoParse
    /\ parseRet' = [fn |-> "Route", split |-> RouteSplit(parseIn)]
    /\ UNCHANGED <<parseGroups, parseIn>>
    /\ UNCHANGED notParse

\* The handler has used the result and takes the next request.
ParseReturn ==
    /\ parseRet # NoParse
    /\ parseRet' = NoParse
    /\ UNCHANGED <<parseGroups, parseIn>>
    /\ UNCHANGED notParse

\* The snapshots the parser may read: groups "G" and "x", each absent or
\* with a few models named by their UpstreamModel.
ParseGroupIDs == {<<"G">>, <<"x">>}
ParseModelLists == {<<>>, <<<<"x">>>>, <<<<"1">>, <<"G">>>>, <<<<"G">>, <<"G">>>>}
ParseSnapshots ==
    UNION {[ids -> ParseModelLists] : ids \in SUBSET ParseGroupIDs}

InitParse ==
    /\ NewKeyStateManager /\ NoRouter /\ NoLoadBalancer /\ NoLogger /\ NoStream /\ NoAdapter
    /\ NoRepository
    /\ parseGroups \in ParseSnapshots
    /\ parseIn \in Tokens
    /\ parseRet = NoParse

NextParse ==
    \/ ParseModelRoutingCall
    \/ RouteSplitCall
    \/ ParseReturn

SpecParse == InitParse /\ [][NextParse]_vars

(***************************************************************************)
(* core/sse_test.go - the block splitter of HandleClaudeMessage (lines     *)
(* 183-204), the loop TestSSESplittingLogic copies.  A byte is "CR", "LF"  *)
(* or "d" (any other byte).                                                *)
(***************************************************************************)
StreamBytes == {"CR", "LF", "d"}
LFLF     == <<"LF", "LF">>
CRLFCRLF == <<"CR", "LF", "CR", "LF">>

RECURSIVE StreamsUpTo(_)
StreamsUpTo(n) ==
    IF n = 0 THEN {<<>>}
    ELSE StreamsUpTo(n - 1)
         \cup {Append(t, b) : t \in {u \in StreamsUpTo(n - 1) : Len(u) = n - 1}, b \in StreamBytes}

\* strings.Index(str, pat) for a pattern of several bytes.
HasAt(str, pat, i) == i + Len(pat) - 1 <= Len(str) /\ SubSeq(str, i, i + Len(pat) - 1) = pat
IndexStr(str, pat) ==
    IF \E i \in 1..Len(str) : HasAt(str, pat, i)
    THEN (CHOOSE i \in 1..Len(str) :
             HasAt(str, pat, i) /\ \A j \in 1..(i - 1) : ~HasAt(str, pat, j)) - 1
    ELSE -1

\* A delimiter search that knows "\n\n" only.
NextDelimiterLF(buffer) == [idx |-> IndexStr(buffer, LFLF), delimLen |-> 2]
\* Lines 191-196: idx and delimLen.
NextDelimiter(buffer) ==
    LET idx == IndexStr(buffer, LFLF)
        rIdx == IndexStr(buffer, CRLFCRLF)
    IN  IF rIdx # -1 /\ (idx = -1 \/ rIdx < idx)
        THEN [idx |-> rIdx, delimLen |-> 4]
        ELSE [idx |-> idx, delimLen |-> 2]

\* Lines 189-204: the inner loop; the blocks cut off and the buffer left.
RECURSIVE SplitBlocks(_, _)
SplitBlocks(buffer, blocks) ==
    LET d == NextDelimiter(buffer)
    IN  IF d.idx = -1 THEN [buffer |-> buffer, blocks |-> blocks]
        ELSE SplitBlocks(Suffix(buffer, d.idx + d.delimLen),
                         Append(blocks, Prefix(buffer, d.idx)))

\* Lines 186-204: one chunk arrives on streamChan.
ReadChunk(n) ==
    /\ n \in 1..Len(sseUpstream)
    /\ LET chunk == SubSeq(sseUpstream, 1, n)
           split == SplitBlocks(lineBuffer \o chunk, sseBlocks)
       IN  /\ lineBuffer' = split.buffer
           /\ sseBlocks' = split.blocks
           /\ sseRead' = sseRead \o chunk
           /\ lastChunk' = chunk
    /\ sseUpstream' = SubSeq(sseUpstream, n + 1, Len(sseUpstream))
    /\ UNCHANGED notSSE

InitSSE ==
    /\ NewKeyStateManager /\ NoRouter /\ NoLoadBalancer /\ NoLogger /\ NoParser /\ NoAdapter
    /\ NoRepository
    /\ sseUpstream \in StreamsUpTo(MaxStreamLen)
    /\ lineBuffer = <<>>
    /\ sseBlocks = <<>>
    /\ sseRead = <<>>
    /\ lastChunk = <<>>

NextSSE == \E n \in 1..MaxStreamLen : ReadChunk(n)

SpecSSE == InitSSE /\ [][NextSSE]_vars

(***************************************************************************)
(* core/adapter - the stream paths: OpenAIAdapter.HandleResponse           *)
(* (openai.go), GeminiAdapter.handleStreamResponse with its scanner        *)
(* (unnamed/part_010) and ClaudeAdapter.handleStreamResponse with its      *)
(* scanner (gemini_test.go).  The upstream stream is taken event by event: *)
(* "content" is an event the scanner turns into a chunk, "other" an event  *)
(* it passes over (a line without "data: ", a ping, JSON it cannot read),  *)
(* "terminator" the upstream's own end mark ("data: [DONE]" for OpenAI and *)
(* Gemini, message_stop for Claude).  The stream then ends with EOF or     *)
(* with a read error.  Writes to the client are taken to succeed.          *)
(***************************************************************************)
Adapters == {"openai", "gemini", "claude"}
UpstreamEvents == {"content", "other", "terminator"}
UpstreamEnds == {"EOF", "read error"}
DoneFrame == "data: [DONE]"

RECURSIVE EventStreamsUpTo(_)
EventStreamsUpTo(n) ==
    IF n = 0 THEN {<<>>}
    ELSE EventStreamsUpTo(n - 1)
         \cup {Append(t, e) : t \in {u \in EventStreamsUpTo(n - 1) : Len(u) = n - 1},
                              e \in UpstreamEvents}

\* io.Copy hands an upstream event on as it is; the upstream's own
\* terminator is the frame "data: [DONE]".
CopiedFrame(event) == IF event = "terminator" THEN DoneFrame ELSE event

\* OpenAIAdapter.HandleResponse, stream branch: io.Copy(c.Writer, resp.Body),
\* one event of it.
CopyEvent ==
    /\ adapterCall.pc = "stream" /\ adapterCall.adapter = "openai"
    /\ adapterCall.upstream # <<>>
    /\ outbound' = Append(outbound, CopiedFrame(Head(adapterCall.upstream)))
    /\ adapterCall' = [adapterCall EXCEPT !.upstream = Tail(@)]
    /\ UNCHANGED notAdapter

\* io.Copy reaches the end of the body and HandleResponse returns its error.
CopyEnd ==
    /\ adapterCall.pc = "stream" /\ adapterCall.adapter = "openai"
    /\ adapterCall.upstream = <<>>
    /\ adapterCall' = [adapterCall EXCEPT !.pc = "returned",
                          !.err = IF adapterCall.end = "EOF" THEN Nil ELSE <<adapterCall.end>>]
    /\ UNCHANGED outbound
    /\ UNCHANGED notAdapter

\* handleStreamResponse of the Gemini and Claude adapters: Scan() reads one
\* event.  A content event is written as a chunk; the terminator makes Scan
\* return false with no error, and the handler writes "data: [DONE]".
ScanEvent ==
    /\ adapterCall.pc = "stream" /\ adapterCall.adapter \in {"gemini", "claude"}
    /\ adapterCall.upstream # <<>>
    /\ LET event == Head(adapterCall.upstream)
       IN  IF event = "terminator"
           THEN /\ outbound' = Append(outbound, DoneFrame)
                /\ adapterCall' = [adapterCall EXCEPT !.pc = "returned", !.err = Nil]
           ELSE /\ outbound' = IF event = "content" THEN Append(outbound, "content")
                               ELSE outbound
                /\ adapterCall' = [adapterCall EXCEPT !.upstream = Tail(@)]
    /\ UNCHANGED notAdapter

\* The inner bufio.Scanner stops: Scan returns false; on a read error the
\* handler returns scanner.Err(), otherwise it writes "data: [DONE]".
ScanEnd ==
    /\ adapterCall.pc = "stream" /\ adapterCall.adapter \in {"gemini", "claude"}
    /\ adapterCall.upstream = <<>>
    /\ IF adapterCall.end = "EOF"
       THEN /\ outbound' = Append(outbound, DoneFrame)
            /\ adapterCall' = [adapterCall EXCEPT !.pc = "returned", !.err = Nil]
       ELSE /\ UNCHANGED outbound
            /\ adapterCall' = [adapterCall EXCEPT !.pc = "returned",
                                  !.err = <<adapterCall.end>>]
    /\ UNCHANGED notAdapter

InitStream ==
    /\ NewKeyStateManager /\ NoRouter /\ NoLoadBalancer /\ NoLogger /\ NoParser /\ NoStream
    /\ NoRepository
    /\ \E adapter \in Adapters, upstream \in EventStreamsUpTo(MaxEvents), end \in UpstreamEnds :
          adapterCall = [pc |-> "stream", adapter |-> adapter, upstream |-> upstream,
                         end |-> end, err |-> Nil]
    /\ outbound = <<>>

NextStream ==
    \/ CopyEvent
    \/ CopyEnd
    \/ ScanEvent
    \/ ScanEnd

SpecStream == InitStream /\ [][NextStream]_vars

(***************************************************************************)
(* core/adapter - GeminiStreamScanner.Scan and handleStreamResponse in     *)
(* their two versions (core/adapter/gemini.go and unnamed/part_010), line  *)
(* by line.  A text is the sequence of its pieces, so that concatenation   *)
(* is \o.  An upstream line is a "data: " line holding a GeminiResponse,   *)
(* the line "data: [DONE]", or a line Scan passes over (no "data: "        *)
(* prefix, or JSON that does not parse).  Writes to the client are taken   *)
(* to succeed.                                                             *)
(***************************************************************************)
ScannerVersions == {"gemini.go", "part_010"}
GeminiTexts == {<<>>, <<"Hello">>, <<" World">>}
SourcesText == <<"-- Sources --">>

GeminiLine(kind, candidates, text, grounding, usage) ==
    [kind |-> kind, candidates |-> candidates, text |-> text,
     grounding |-> grounding, usage |-> usage]

GeminiLines ==
    {GeminiLine("data", TRUE, t, g, u) : t \in GeminiTexts, g \in BOOLEAN, u \in BOOLEAN}
    \cup {GeminiLine("data", FALSE, <<>>, FALSE, u) : u \in BOOLEAN}
    \cup {GeminiLine("done", FALSE, <<>>, FALSE, FALSE),
          GeminiLine("skipped", FALSE, <<>>, FALSE, FALSE)}

RECURSIVE GeminiStreamsUpTo(_)
GeminiStreamsUpTo(n) ==
    IF n = 0 THEN {<<>>}
    ELSE GeminiStreamsUpTo(n - 1)
         \cup {Append(t, e) : t \in {u \in GeminiStreamsUpTo(n - 1) : Len(u) = n - 1},
                              e \in GeminiLines}

\* A frame written to the client: a chat.completion.chunk with its delta's
\* role ("" when omitted) and content, a usage chunk with empty choices, or
\* "data: [DONE]".
Frame(kind, role, content) == [kind |-> kind, role |-> role, content |-> content]
DoneChunk == Frame("done", "", <<>>)

\* The content Scan builds for the first candidate: the texts of its parts,
\* and in part_010 the grounding sources appended to them.
CandidateContent(version, line) ==
    IF version = "part_010" /\ line.grounding
    THEN line.text \o SourcesText
    ELSE line.text

\* No frame is given a role.
DeltaRoleNone(version, hasSentRole) == ""

\* The role of a content frame's delta: gemini.go sets it on every frame,
\* part_010 on the first one only (hasSentRole).
DeltaRole(version, hasSentRole) ==
    IF version = "gemini.go" \/ ~hasSentRole THEN "assistant" ELSE ""

\* One turn of the loop in Scan with the write in handleStreamResponse that
\* follows a true return.
GeminiScanLine ==
    /\ adapterCall.pc = "scan"
    /\ adapterCall.pos < Len(adapterCall.upstream)
    /\ LET line    == adapterCall.upstream[adapterCall.pos + 1]
           version == adapterCall.version
           content == CandidateContent(version, line)
           read    == [adapterCall EXCEPT !.pos = @ + 1]
       IN  CASE line.kind = "skipped" ->
                  /\ adapterCall' = read
                  /\ UNCHANGED outbound
             [] line.kind = "done" ->
                  /\ adapterCall' = [read EXCEPT !.pc = "returned", !.err = Nil]
                  /\ outbound' = Append(outbound, DoneChunk)
             [] line.kind = "data" /\ line.candidates /\ content # <<>> ->
                  /\ outbound' = Append(outbound,
                         Frame("chunk", DeltaRole(version, adapterCall.hasSentRole), content))
                  /\ adapterCall' = [read EXCEPT !.hasSentRole = TRUE]
             [] line.kind = "data" /\ ~(line.candidates /\ content # <<>>)
                  /\ version = "part_010" /\ line.usage ->
                  /\ outbound' = Append(outbound, Frame("usage", "", <<>>))
                  /\ adapterCall' = read
             [] OTHER ->
                  /\ adapterCall' = read
                  /\ UNCHANGED outbound
    /\ UNCHANGED notAdapter

\* The inner bufio.Scanner stops: Scan returns false; handleStreamResponse
\* returns scanner.Err() on a read error and writes "data: [DONE]" otherwise.
GeminiScanEnd ==
    /\ adapterCall.pc = "scan"
    /\ adapterCall.pos = Len(adapterCall.upstream)
    /\ IF adapterCall.end = "EOF"
       THEN /\ outbound' = Append(outbound, DoneChunk)
            /\ adapterCall' = [adapterCall EXCEPT !.pc = "returned", !.err = Nil]
       ELSE /\ UNCHANGED outbound
            /\ adapterCall' = [adapterCall EXCEPT !.pc = "returned",
                                  !.err = <<adapterCall.end>>]
    /\ UNCHANGED notAdapter

\* NewGeminiStreamScanner over a response body.
InitGemini ==
    /\ NewKeyStateManager /\ NoRouter /\ NoLoadBalancer /\ NoLogger /\ NoParser /\ NoStream
    /\ NoRepository
    /\ \E version \in ScannerVersions, upstream \in GeminiStreamsUpTo(MaxChunks),
          end \in UpstreamEnds :
          adapterCall = [pc |-> "scan", version |-> version, upstream |-> upstream,
                         pos |-> 0, end |-> end, err |-> Nil, hasSentRole |-> FALSE]
    /\ outbound = <<>>

NextGemini ==
    \/ GeminiScanLine
    \/ GeminiScanEnd

SpecGemini == InitGemini /\ [][NextGemini]_vars

(***************************************************************************)
(* cmd/main.go, cmd/middleware.go - the chat-completion route:             *)
(* RequestLoggerMiddleware around the handler, with the asynchronous log   *)
(* writer behind it.  Requests are served one at a time; the writer is not *)
(* closed while the server runs (main closes it after Shutdown).           *)
(***************************************************************************)
\* The middleware's test after c.Next() for a path outside /admin.
ShouldLog(statusCode) == statusCode >= 400

\* RequestLoggerMiddleware lines 81-101, once the handler has returned: the
\* record built from the response status (no ModelConfigID is set) is handed
\* to Log when the status is 400 or more.
RequestLoggerMiddleware ==
    /\ req.pc = "done"
    /\ logCall = NoLogCall
    /\ logSeq < MaxGatewayLogs
    /\ IF ShouldLog(req.status)
       THEN /\ logSeq' = logSeq + 1
            /\ logCall' = [pc |-> "Log", log |-> RequestLog(logSeq + 1, 0, req.status, 1)]
       ELSE UNCHANGED <<logSeq, logCall>>
    /\ req' = NoReq
    /\ upstreamCalls' = 0
    /\ lastAttempt' = NoAttempt
    /\ lastLog' = NoLog
    /\ UNCHANGED <<modelGroups, keyMap, globalRRCounters>>
    /\ UNCHANGED <<logChan, batch, logger, requestLogs, modelStats, accepted>>
    /\ UNCHANGED <<kmVars, lbVars, parseVars, sseVars, adapterVars, repoVars>>

\* The upstream answers taken on this route: a success, a failure status and
\* a network error.
GatewayOutcomes ==
    {Outcome("response", 200, <<>>), Outcome("response", 500, <<>>),
     Outcome("error", 0, <<"EOF">>)}

InitGateway ==
    /\ NewKeyStateManager /\ NewStatelessModelRouter /\ NoLoadBalancer
    /\ \A g \in DOMAIN modelGroups : Len(modelGroups[g].Models) <= MaxGatewayModels
    /\ NewAsyncRequestLogger /\ NoTools

NextGateway ==
    \/ \E routing \in Routings : StartRequest(routing)
    \/ InitKeyCursor
    \/ LoopNoKeys
    \/ \E outcome \in GatewayOutcomes : LoopAttempt(outcome)
    \/ LoopExhausted
    \/ RequestLoggerMiddleware
    \/ LogSelect
    \/ WorkerReceive
    \/ WorkerTimer

SpecGateway == InitGateway /\ [][NextGateway]_vars

(***************************************************************************)
(* StatelessModelRouter.loadData and RefreshData in their two versions     *)
(* (core/router.go and unnamed/part_007) over a repository that the admin  *)
(* handlers change.  The repository holds the group rows (with their model *)
(* rows in order) and the credential rows of each model; gateway_settings  *)
(* and model_stats are taken to load.                                      *)
(***************************************************************************)
RouterBuilds == {"router.go", "part_007"}
RepoGroupIDs == {"G", "H"}

\* The repositories considered: group G with up to two models (ids 1, 2),
\* group H with model 3, each model with 1..MaxRepoKeys credentials; a group
\* may be missing, and G may have no model.
RepoModelLists(g) == IF g = "G" THEN {<<>>, <<1>>, <<1, 2>>} ELSE {<<3>>}
RepoGroupRows ==
    UNION {[present -> [GroupID : {"G", "H"}, Strategy : {"round_robin"},
                        Models : RepoModelLists("G") \cup RepoModelLists("H")]]
           : present \in SUBSET RepoGroupIDs}
RepoModelIDs(groups) ==
    UNION {{groups[g].Models[i] : i \in 1..Len(groups[g].Models)} : g \in DOMAIN groups}
Databases ==
    UNION {{[settings |-> 1, groups |-> groups,
             keys |-> [id \in RepoModelIDs(groups) |->
                          [j \in 1..count[id] |-> KeyValue(id, j)]]]
            : count \in [RepoModelIDs(groups) -> 1..MaxRepoKeys]}
           : groups \in {rows \in RepoGroupRows :
                            \A g \in DOMAIN rows : /\ rows[g].GroupID = g
                                                   /\ rows[g].Models \in RepoModelLists(g)}}

\* Every entry of the second map written over the first.
MapMerge(old, new) ==
    [k \in (DOMAIN old) \cup (DOMAIN new) |-> IF k \in DOMAIN new THEN new[k] ELSE old[k]]

\* The maps loadData builds from the rows it has read: the groups by group
\* id and the credentials by model id (Preload("Models.APIKeys")).
LoadedModelGroups(rows) == [g \in DOMAIN rows.groups |-> rows.groups[g]]
LoadedKeyMap(rows) == [id \in RepoModelIDs(rows.groups) |-> rows.keys[id]]

\* loadData of router.go makes new maps before it fills them; loadData of
\* part_007 fills the maps the router already has.
loadData(build, groups, keys, rows) ==
    IF build = "router.go"
    THEN [modelGroups |-> LoadedModelGroups(rows), keyMap |-> LoadedKeyMap(rows)]
    ELSE [modelGroups |-> MapMerge(groups, LoadedModelGroups(rows)),
          keyMap |-> MapMerge(keys, LoadedKeyMap(rows))]

\* An admin handler changes the rows of the repository.
RepositoryWrite(rows) ==
    /\ routerBuild \in RouterBuilds
    /\ rows # db
    /\ db' = rows
    /\ refreshErr' = ""
    /\ UNCHANGED <<routerBuild, gatewaySettings, rtVars>>
    /\ UNCHANGED <<kmVars, lbVars, logVars, parseVars, sseVars, adapterVars>>

\* loadData with its queries: failing names the query that returns an error
\* ("" when all load).  The settings row is stored as soon as it is read.
\*   router.go: an error of the settings or the groups query returns before
\*     the maps are made anew, an error of the stats query after they were
\*     filled.
\*   part_007: the error of the groups query is not looked at (no group is
\*     ranged over then), and there is no stats query.
Queries == {"settings", "groups", "stats"}
Loaded(settings, groups, keys, err) ==
    [gatewaySettings |-> settings, modelGroups |-> groups, keyMap |-> keys, err |-> err]
loadDataQueries(build, settings, groups, keys, rows, failing) ==
    LET loaded == loadData(build, groups, keys, rows)
    IN  IF failing = "settings"
        THEN Loaded(settings, groups, keys, "failed to load gateway settings")
        ELSE IF failing = "groups"
        THEN Loaded(rows.settings, groups, keys,
                    IF build = "router.go" THEN "failed to load model groups" ELSE "")
        ELSE IF failing = "stats" /\ build = "router.go"
        THEN Loaded(rows.settings, loaded.modelGroups, loaded.keyMap, "failed to load stats")
        ELSE Loaded(rows.settings, loaded.modelGroups, loaded.keyMap, "")

\* StatelessModelRouter.RefreshData: loadData under the write lock.
RouterRefreshDataQueries(failing) ==
    /\ routerBuild \in RouterBuilds
    /\ LET loaded == loadDataQueries(routerBuild, gatewaySettings, modelGroups, keyMap,
                                     db, failing)
       IN  /\ gatewaySettings' = loaded.gatewaySettings
           /\ modelGroups' = loaded.modelGroups
           /\ keyMap' = loaded.keyMap
           /\ refreshErr' = loaded.err
    /\ UNCHANGED <<globalRRCounters, req, upstreamCalls, lastAttempt, db, routerBuild>>
    /\ UNCHANGED <<kmVars, lbVars, logVars, parseVars, sseVars, adapterVars>>

\* RefreshData when every query loads.
RouterRefreshData == RouterRefreshDataQueries("")

\* A request runs GetInitialModelIndex on a group of the snapshot.
CounterRequest(g) ==
    /\ routerBuild \in RouterBuilds
    /\ g \in DOMAIN modelGroups
    /\ LET init == GetInitialModelIndex(modelGroups, globalRRCounters, g)
       IN  /\ init.counters # globalRRCounters
           /\ CounterValue(init.counters, g) <= MaxRepoCounter
           /\ globalRRCounters' = init.counters
    /\ UNCHANGED <<modelGroups, keyMap, req, upstreamCalls, lastAttempt, repoVars>>
    /\ UNCHANGED <<kmVars, lbVars, logVars, parseVars, sseVars, adapterVars>>

\* NewStatelessModelRouter: empty maps, then loadData.
InitRefresh ==
    /\ NewKeyStateManager /\ NoLoadBalancer /\ NoLogger
    /\ NoParser /\ NoStream /\ NoAdapter
    /\ routerBuild \in RouterBuilds
    /\ db \in Databases
    /\ modelGroups = loadData(routerBuild, <<>>, <<>>, db).modelGroups
    /\ keyMap = loadData(routerBuild, <<>>, <<>>, db).keyMap
    /\ gatewaySettings = db.settings
    /\ refreshErr = ""
    /\ globalRRCounters = <<>>
    /\ req = NoReq
    /\ upstreamCalls = 0
    /\ lastAttempt = NoAttempt

NextRefresh ==
    \/ \E rows \in Databases : RepositoryWrite(rows)
    \/ RouterRefreshData
    \/ \E g \in RepoGroupIDs : CounterRequest(g)

SpecRefresh == InitRefresh /\ [][NextRefresh]_vars

\* RefreshData over a repository whose queries may fail: group G with one or
\* two models and one of two settings rows.
SettingsRows == {1, 2}
FailDatabases ==
    {[settings |-> settings, groups |-> rows.groups, keys |-> rows.keys] :
        settings \in SettingsRows,
        rows \in {d \in Databases : /\ DOMAIN d.groups = {"G"}
                                   /\ d.groups["G"].Models # <<>>}}

InitFailedRefresh ==
    /\ NewKeyStateManager /\ NoLoadBalancer /\ NoLogger
    /\ NoParser /\ NoStream /\ NoAdapter
    /\ routerBuild \in RouterBuilds
    /\ db \in FailDatabases
    /\ modelGroups = loadData(routerBuild, <<>>, <<>>, db).modelGroups
    /\ keyMap = loadData(routerBuild, <<>>, <<>>, db).keyMap
    /\ gatewaySettings = db.settings
    /\ refreshErr = ""
    /\ globalRRCounters = <<>>
    /\ req = NoReq
    /\ upstreamCalls = 0
    /\ lastAttempt = NoAttempt

NextFailedRefresh ==
    \/ \E rows \in FailDatabases : RepositoryWrite(rows)
    \/ \E failing \in Queries \cup {""} : RouterRefreshDataQueries(failing)

SpecFailedRefresh == InitFailedRefresh /\ [][NextFailedRefresh]_vars

(***************************************************************************)
(* ProxyRequest while the router reloads: the request loop of core/proxy.go *)
(* interleaved with RefreshData and the admin's changes to the repository. *)
(* The calls ProxyRequest makes before its loop are taken as one step.     *)
(***************************************************************************)
\* ProxyRequest lines 212-218: GetModelKeys fails for the selected model (the
\* snapshot read now has no entry for it); advanceCursors is called with
\* totalKeys 0 and the loop goes on.
LoopKeysMissing ==
    /\ req.pc = "loop"
    /\ req.attempt < req.maxAttempts
    /\ LET models == req.group.Models
           selectedModelIndex == req.modelCursor % Len(models)
           selectedModel == models[selectedModelIndex + 1]
           adv == advanceCursors(req.modelCursor, req.keyCursor, Len(models), 0,
                                 req.routing.IsPinned, req.group.Strategy)
       IN  /\ ~GetModelKeys(keyMap, selectedModel).ok
           /\ req' = [req EXCEPT !.modelCursor = adv.modelCursor,
                                 !.keyCursor = adv.keyCursor,
                                 !.attempt = @ + 1]
           /\ lastAttempt' = Attempt(selectedModelIndex, selectedModel, Nil,
                                     Outcome("keyerror", 0, Nil), FALSE, adv.ok, Nil)
    /\ UNCHANGED <<modelGroups, keyMap, globalRRCounters, upstreamCalls>>
    /\ UNCHANGED notRt

\* The repositories the reload is run over: group G with one or two models,
\* each holding no or MaxRepoKeys credentials.
ReloadKeyCounts == {0, MaxRepoKeys}
ReloadDatabases ==
    UNION {{[settings |-> 1, groups |-> groups,
             keys |-> [id \in RepoModelIDs(groups) |->
                          [j \in 1..count[id] |-> KeyValue(id, j)]]]
            : count \in [RepoModelIDs(groups) -> ReloadKeyCounts]}
           : groups \in {rows \in RepoGroupRows :
                            /\ DOMAIN rows = {"G"}
                            /\ rows["G"].GroupID = "G"
                            /\ rows["G"].Models \in RepoModelLists("G") \ {<<>>}}}
ReloadRoutings == {RoutingInfo("G", FALSE, Nil), RoutingInfo("G", TRUE, Ptr(1))}

InitReload == InitRefresh /\ routerBuild = "router.go" /\ db \in ReloadDatabases

NextReload ==
    \/ \E routing \in ReloadRoutings : StartRequest(routing)
    \/ InitKeyCursor
    \/ LoopNoKeys
    \/ LoopKeysMissing
    \/ \E outcome \in GatewayOutcomes : LoopAttempt(outcome)
    \/ LoopExhausted
    \/ Respond
    \/ \E rows \in ReloadDatabases : RepositoryWrite(rows)
    \/ RouterRefreshData

SpecReload == InitReload /\ [][NextReload]_vars

(***************************************************************************)
(* The indexes Route computes from the request counter, in the arithmetic  *)
(* of the build: the counter is an unsigned word, int is a signed word of  *)
(* the same width, sums wrap and % is the remainder of a division that     *)
(* truncates toward zero.  The width is CounterBits.                       *)
(***************************************************************************)
WordSize == 2 ^ CounterBits

\* uint64 arithmetic, the conversion int(x) of an unsigned value, a sum of
\* ints, and a % n on ints.
ToUint(x) == x % WordSize
ToInt(u) == IF u >= WordSize \div 2 THEN u - WordSize ELSE u
AddInt(a, b) == ToInt((a + b) % WordSize)
Rem(a, n) == IF a >= 0 THEN a % n ELSE -((-a) % n)

\* RoundRobinStrategy.Select: idx := int((counter - 1) % uint64(len(configs)))
SelectIndex(n, counter) == ToInt(ToUint(counter - 1) % n)

\* The index of the i-th key the loop of Route looks at.
\*   part_009: keys[(int(currentCount-1)+i)%len(keys)]
\*   part_008: idx := (int(count) + i) % len(keys); if idx < 0 { idx = -idx }
KeyIndex(build, count, i, n) ==
    IF build = "part_009" THEN Rem(AddInt(ToInt(ToUint(count - 1)), i), n)
    ELSE LET idx == Rem(AddInt(ToInt(count), i), n)
         IN  IF idx < 0 THEN -idx ELSE idx

\* The key loop: the indexes it computes, in order, up to the first one that
\* is out of range (the slice access panics) or whose key is available.
RECURSIVE ScannedIndexes(_, _, _, _, _, _)
ScannedIndexes(build, st, t, keys, count, i) ==
    IF i >= Len(keys) THEN <<>>
    ELSE LET idx == KeyIndex(build, count, i, Len(keys))
         IN  IF idx < 0 \/ idx >= Len(keys) THEN <<idx>>
             ELSE IF IsAvailableNow(st, t, keys[idx + 1]) THEN <<idx>>
             ELSE <<idx>> \o ScannedIndexes(build, st, t, keys, count, i + 1)

\* What a Route call on the counter computed: the model index and the key
\* indexes, and whether the call ended in a panic.
IndexResult(err, modelIndex, n, keyIndexes, totalKeys) ==
    [err |-> err, modelIndex |-> modelIndex, models |-> n,
     keyIndexes |-> keyIndexes, keys |-> totalKeys]

\* Route for an unpinned request of a round_robin group with models.
CounterRoute(g) ==
    /\ lbBuild \in LBBuilds
    /\ LET state == groupStates[g]
           n == Len(state.Models)
           currentCount == ToUint(state.RequestCounter + 1)
           modelIndex == SelectIndex(n, currentCount)
           keys == state.Keys[state.Models[modelIndex + 1]]
           count == IF lbBuild = "part_008" THEN ToUint(currentCount + 1) ELSE currentCount
           scanned == ScannedIndexes(lbBuild, states, now, keys, count, 0)
           last == scanned[Len(scanned)]
       IN  IF Len(keys) = 0
           THEN /\ groupStates' = [groupStates EXCEPT ![g].RequestCounter = currentCount]
                /\ lbRet' = IndexResult("no keys", modelIndex, n, <<>>, 0)
           ELSE /\ groupStates' = [groupStates EXCEPT ![g].RequestCounter = count]
                /\ lbRet' = IndexResult(IF last < 0 \/ last >= Len(keys) THEN "panic"
                                        ELSE IF IsAvailableNow(states, now, keys[last + 1])
                                        THEN "" ELSE "all keys unavailable",
                                        modelIndex, n, scanned, Len(keys))
    /\ UNCHANGED <<states, now, lbBuild>>
    /\ UNCHANGED notLB

\* The load balancer at any value of its counter.
CounterShapes == {<<3>>, <<1, 2>>, <<0, 2>>}
InitCounter ==
    /\ NewKeyStateManager /\ NoRouter /\ NoLogger /\ NoTools
    /\ lbBuild \in LBBuilds
    /\ \E shape \in CounterShapes, c \in 0..WordSize - 1 :
          groupStates = [g \in GroupIDs |->
                            [GroupState(g, "round_robin", shape) EXCEPT !.RequestCounter = c]]
    /\ lbRet = NoRoute

NextCounter ==
    \/ \E g \in GroupIDs : CounterRoute(g)
    \/ \E i \in 1..Len(LBKeys) : KeyDead(LBKeys[i])

SpecCounter == InitCounter /\ [][NextCounter]_vars

(***************************************************************************)
(* core/proxy.go - streamAndMapResponse: the line scanner that shows the   *)
(* reasoning_content of a stream in the content field.  A string is a      *)
(* sequence of pieces; writes to the client succeed.                       *)
(***************************************************************************)
\* The prefix (written here without its emoji) and the separator.
ThinkingPrefix == <<"> **Thinking Process:**\n> ">>
ContentSeparator == <<"\n\n">>

\* The lines of the upstream body: an empty line, a line without the "data: "
\* prefix, "data: [DONE]", a data line that is no JSON, and a chunk with its
\* number of choices and the reasoning_content and content of choice 0.
MapLine(kind, choices, rc, content) ==
    [kind |-> kind, choices |-> choices, rc |-> rc, content |-> content]
ReasoningTexts == {<<>>, <<"r">>, <<"r", "\n", "s">>}
ContentTexts == {<<>>, <<"c">>}
MapLines ==
    {MapLine(kind, 0, <<>>, <<>>) : kind \in {"empty", "other", "done", "invalid", "chunk"}}
    \cup {MapLine("chunk", 1, rc, content) : rc \in ReasoningTexts, content \in ContentTexts}
RECURSIVE MapStreamsUpTo(_)
MapStreamsUpTo(n) ==
    IF n = 0 THEN {<<>>}
    ELSE LET shorter == MapStreamsUpTo(n - 1)
         IN  shorter \cup {Append(u, line) : u \in {v \in shorter : Len(v) = n - 1},
                                             line \in MapLines}

\* strings.ReplaceAll(rc, "\n", "\n> ")
RECURSIVE QuoteNewlines(_)
QuoteNewlines(rc) ==
    IF rc = <<>> THEN <<>>
    ELSE (IF Head(rc) = "\n" THEN <<"\n> ">> ELSE <<Head(rc)>>) \o QuoteNewlines(Tail(rc))

\* What is written for a line: the line with the content it is sent with,
\* and whether the chunk was marshalled anew.
Written(line, content, modified) ==
    [line |-> line, content |-> content, modified |-> modified]

\* One pass of the scanner loop.
StreamAndMapLine ==
    /\ adapterCall.pc = "map"
    /\ adapterCall.pos < Len(adapterCall.upstream)
    /\ LET line == adapterCall.upstream[adapterCall.pos + 1]
           read == [adapterCall EXCEPT !.pos = @ + 1]
       IN  IF line.kind = "chunk" /\ line.choices > 0 /\ line.rc # <<>>
           THEN /\ outbound' = Append(outbound,
                       Written(line, (IF adapterCall.isFirstReasoning THEN ThinkingPrefix
                                      ELSE <<>>) \o QuoteNewlines(line.rc), TRUE))
                /\ adapterCall' =
                       IF adapterCall.isFirstReasoning
                       THEN [read EXCEPT !.isFirstReasoning = FALSE, !.inReasoningBlock = TRUE]
                       ELSE read
           ELSE IF line.kind = "chunk" /\ line.choices > 0 /\ line.content # <<>>
                   /\ adapterCall.inReasoningBlock
           THEN /\ outbound' = Append(outbound,
                                      Written(line, ContentSeparator \o line.content, TRUE))
                /\ adapterCall' = [read EXCEPT !.inReasoningBlock = FALSE]
           ELSE /\ outbound' = Append(outbound, Written(line, line.content, FALSE))
                /\ adapterCall' = read
    /\ UNCHANGED notAdapter

\* Scan returns false at the end of the body.
StreamAndMapEnd ==
    /\ adapterCall.pc = "map"
    /\ adapterCall.pos = Len(adapterCall.upstream)
    /\ adapterCall' = [adapterCall EXCEPT !.pc = "returned"]
    /\ UNCHANGED outbound
    /\ UNCHANGED notAdapter

InitMap ==
    /\ NewKeyStateManager /\ NoRouter /\ NoLoadBalancer /\ NoLogger /\ NoParser /\ NoStream
    /\ NoRepository
    /\ \E upstream \in MapStreamsUpTo(MaxMapLines) :
          adapterCall = [pc |-> "map", upstream |-> upstream, pos |-> 0,
                         isFirstReasoning |-> TRUE, inReasoningBlock |-> FALSE]
    /\ outbound = <<>>

NextMap ==
    \/ StreamAndMapLine
    \/ StreamAndMapEnd

SpecMap == InitMap /\ [][NextMap]_vars

(***************************************************************************)
(* Properties of the health store (SpecKM).                                *)
(***************************************************************************)

\* C2 (as claimed): once MarkDead(c) has been called, every IsAvailable(c)
\* that begins afterwards returns false, until MarkAvailable(c) is called -
\* whatever other health-store operations are interleaved.
C2_DeadUntilMarkAvailable ==
    (kmRet # NoRet /\ kmRet.dead) => kmRet.result = FALSE

\* C3 (amended): while the entry written by MarkCooldown(c, d) at time t is
\* the one in the store, IsAvailable(c) returns false at every time
\* now <= t+d and true at every time now > t+d (at the instant now = t+d it
\* still returns false); a true answer evicts the entry.
C3_CooldownExpiresStrictlyAfter ==
    (kmRet # NoRet /\ kmRet.cd # NoCd) =>
        /\ kmRet.result <=> (kmRet.at > kmRet.cd.t + kmRet.cd.d)
        /\ kmRet.result => kmRet.evicted

\* C3, reached: a call on a key in Cooldown answered true after the unlock
\* time and left no entry behind.
C3_Witness ==
    /\ kmRet # NoRet /\ kmRet.cd # NoCd
    /\ kmRet.result /\ kmRet.evicted
    /\ kmRet.at > kmRet.cd.t + kmRet.cd.d

\* C3 (as claimed): IsAvailable(c) returns true at every now >= t+d,
\* the instant now = t+d included.
C3_CooldownExpiresAtUnlock ==
    (kmRet # NoRet /\ kmRet.cd # NoCd) =>
        (kmRet.result <=> (kmRet.at >= kmRet.cd.t + kmRet.cd.d))

(***************************************************************************)
(* Properties of the request loop (SpecProxy).                             *)
(***************************************************************************)

\* C1: one inbound request handled by ProxyRequest issues at most
\* clamp(ceil(1.5 * T), 3, 12) upstream HTTP calls, T the number of
\* credentials of its group - for every group, every strategy, pinned and
\* non-pinned routings, and whatever the upstream outcomes are.
C1_AttemptBudget ==
    upstreamCalls <= Clamp((3 * SumKeyCounts(keyMap, req.group.Models) + 1) \div 2, 3, 12)

\* C1, reached: a request spent the whole budget of 12 upstream calls and
\* was answered 502.
C1_Witness ==
    /\ req.pc = "done" /\ req.status = 502
    /\ upstreamCalls = 12
    /\ SumKeyCounts(keyMap, req.group.Models) > 8

\* C10 (as claimed): when an attempt with credential K returns 429 the
\* dispatcher calls MarkCooldown(K, 60s), and when it returns a 5xx status
\* MarkCooldown(K, 30s): right after such an attempt the health store holds K
\* in Cooldown until now+60 (now+30).
C10_CooldownOnRateLimit ==
    (lastAttempt.outcome.kind = "response"
        /\ (lastAttempt.outcome.status = 429 \/ lastAttempt.outcome.status >= 500)) =>
        LET K == Head(lastAttempt.key)
            d == IF lastAttempt.outcome.status = 429 THEN 60 ELSE 30
        IN  /\ K \in DOMAIN states
            /\ states[K] = KeyState(KeyStatusCooldown, now + d)

\* C11 (as claimed): when an attempt with credential K returns 401 or 403
\* the dispatcher calls MarkDead(K): right after such an attempt the health
\* store holds K as Dead, so that no request selects K until MarkAvailable(K).
C11_DeadOnAuthFailure ==
    (lastAttempt.outcome.kind = "response" /\ lastAttempt.outcome.status \in {401, 403}) =>
        LET K == Head(lastAttempt.key)
        IN  /\ K \in DOMAIN states
            /\ states[K] = KeyState(KeyStatusDead, 0)

\* The attempt of the last step was answered with a hard status.
HardStatusAttempt(a) ==
    a.outcome.kind = "response" /\ a.outcome.status \in {400, 404, 405}

C13_NetworkErrorCooldown ==
    lastAttempt.outcome.kind = "error" =>
        LET K == Head(lastAttempt.key)
        IN  /\ K \in DOMAIN states
            /\ states[K] = KeyState(KeyStatusCooldown, now + 10)

\* The request in hand is pinned to a model index.
PinnedRequest == req.pc # "idle" /\ req.routing.IsPinned /\ req.routing.ModelIndex # Nil

\* C14: in a request pinned to model index p every pass of the attempt loop
\* selects model p, and the model cursor never leaves p, whatever the
\* attempts come to (hard statuses and the end of the model's credentials
\* included).
C14_PinIsolation ==
    PinnedRequest =>
        /\ lastAttempt # NoAttempt => lastAttempt.modelIndex = Head(req.routing.ModelIndex)
        /\ req.pc = "loop" => req.modelCursor = Head(req.routing.ModelIndex)

\* Scenario S5: a request pinned to the second of two models has made
\* several attempts, the last one on the model's last credential, and has
\* seen a hard status or the end of the credentials.
C14_Witness ==
    /\ PinnedRequest
    /\ Head(req.routing.ModelIndex) = 1 /\ Len(req.group.Models) = 2
    /\ Len(keyMap[req.group.Models[1]]) > 0
    /\ req.attempt >= 2
    /\ lastAttempt # NoAttempt /\ lastAttempt.sent /\ ~lastAttempt.ok
    /\ lastAttempt.modelIndex = 1

\* The attempt of the last step failed on an upstream call.
FailedAttempt(a) ==
    a # NoAttempt /\ a.sent /\ ~(a.outcome.kind = "response" /\ a.outcome.status = 200)

\* The attempt used the last credential of its model.
OnLastKey(a) == Head(a.key) = keyMap[a.modelID][Len(keyMap[a.modelID])]

\* C15 (as claimed): in a pinned request, a failed attempt that calls for
\* advanceKey on the last credential of the pinned model, or for
\* skipToNextModel, ends the request at once: right after it the response
\* has been sent and no further attempt follows.
C15_PinnedExhaustionTerminates ==
    (PinnedRequest /\ FailedAttempt(lastAttempt)
        /\ (OnLastKey(lastAttempt) \/ HardStatusAttempt(lastAttempt))) =>
        req.pc = "done"

\* C16 (as claimed): in a non-pinned request, a failed attempt that moves the
\* model cursor past the last model leaves a round_robin group at model 0
\* with the loop going on, and ends the request of a group with any other
\* strategy.
C16_EndOfGroupRule ==
    (req.pc # "idle" /\ ~req.routing.IsPinned /\ FailedAttempt(lastAttempt)
        /\ lastAttempt.modelIndex = Len(req.group.Models) - 1
        /\ (OnLastKey(lastAttempt) \/ HardStatusAttempt(lastAttempt))) =>
        IF req.group.Strategy = "round_robin"
        THEN req.pc = "loop" /\ req.modelCursor = 0 /\ req.keyCursor = 0
        ELSE req.pc = "done"

(***************************************************************************)
(* Properties of the load balancer (SpecLB).                               *)
(***************************************************************************)

\* A credential the health store holds as Dead, or in a Cooldown that has
\* not expired at time t.
Unavailable(st, t, k) ==
    k \in DOMAIN st /\ (st[k].Status = KeyStatusDead \/ t <= st[k].UnlockTime)

\* The credentials of every model of group g, when each model has at least
\* one and none is unavailable.
AllCredentialsAvailable(g) ==
    \A i \in 1..Len(groupStates[g].Models) :
        LET keys == groupStates[g].Keys[groupStates[g].Models[i]]
        IN  /\ Len(keys) > 0
            /\ \A j \in 1..Len(keys) : ~Unavailable(states, now, keys[j])

\* C4 (as claimed): for a round_robin group with k models whose credentials
\* are all available, k consecutive routing calls choose each of the k
\* models exactly once (so N*k calls choose each exactly N times).
C4_RoundRobinFairness ==
    \A g \in DOMAIN groupStates :
        (/\ groupStates[g].Config.Strategy = "round_robin"
         /\ Len(groupStates[g].Models) > 0
         /\ AllCredentialsAvailable(g)) =>
            LET k == Len(groupStates[g].Models)
                rs == RouteSeq(lbBuild, groupStates, states, now, RequestModel(g, Nil), k)
            IN  \A m \in 0..k - 1 :
                    Cardinality({i \in 1..k : rs[i].err = "" /\ rs[i].modelIndex = m}) = 1

\* C5 (as claimed): for every group id that exists before and after
\* RefreshData, the group's request counter right after RefreshData equals
\* its value right before.
C5_RefreshKeepsCounters ==
    [][RefreshData =>
        \A g \in (DOMAIN groupStates) \cap (DOMAIN groupStates') :
            groupStates'[g].RequestCounter = groupStates[g].RequestCounter]_vars

\* The credentials of the model a Route call selected.
SelectedKeys(ret) ==
    groupStates[ret.group].Keys[groupStates[ret.group].Models[ret.modelIndex + 1]]

S2Recovered(g) ==
    /\ lbBuild \in LBBuilds
    /\ g \in DOMAIN groupStates
    /\ Len(groupStates[g].Models) = 1
    /\ groupStates[g].Keys[groupStates[g].Models[1]] = <<"K1", "K2", "K3">>
    /\ "K2" \in DOMAIN states /\ states["K2"].Status = KeyStatusDead
    /\ ~Unavailable(states, now, "K1")
    /\ ~Unavailable(states, now, "K3")

\* C9 (as claimed): in scenario S2 after MarkAvailable(K1), successive
\* routing calls alternate between K1 and K3, and K2 is never chosen.
C9_RecoveryAlternates ==
    \A g \in GroupIDs : S2Recovered(g) =>
        LET rs == RouteSeq(lbBuild, groupStates, states, now, RequestModel(g, Nil), 2)
        IN  /\ {rs[1].key, rs[2].key} = {"K1", "K3"}

\* C9 (amended): in scenario S2 after MarkAvailable(K1), every routing call
\* succeeds with K1 or K3, K2 is never chosen, and of any three successive
\* calls one returns K1 and two return K3 (K3 also takes the turn of K2).
C9_RecoveryTwoToOne ==
    \A g \in GroupIDs : S2Recovered(g) =>
        LET rs == RouteSeq(lbBuild, groupStates, states, now, RequestModel(g, Nil), 3)
        IN  /\ \A i \in 1..3 : rs[i].err = "" /\ rs[i].key \in {"K1", "K3"}
            /\ Cardinality({i \in 1..3 : rs[i].key = "K1"}) = 1
            /\ Cardinality({i \in 1..3 : rs[i].key = "K3"}) = 2

\* C9, reached: in scenario S2 a call made after the recovery returned K1.
C9_Witness ==
    /\ S2Recovered("G")
    /\ lbRet # NoRoute /\ lbRet.err = "" /\ lbRet.key = "K1"

(***************************************************************************)
(* Properties of the asynchronous log writer (SpecLog).                    *)
(***************************************************************************)
\* C6: once Close() has returned, every record that Log put into the
\* channel is a row of the store - the records that were still in the
\* channel when the worker saw the quit signal included.
C6_AcceptedLogsPersisted ==
    logger.closer = "returned" => accepted \subseteq requestLogs

\* C7: Log never blocks the caller.  A goroutine inside Log can always take
\* its step, whatever the worker and the database are doing; on the open
\* channel the call drops the record and leaves the channel as it was when
\* the buffer is full, and puts the record at the end of the channel when
\* it is not.
C7_LogNeverBlocks ==
    /\ logCall.pc = "Log" => ENABLED LogSelect
    /\ (lastLog # NoLog /\ ~lastLog.chanClosed) =>
          /\ logCall = NoLogCall
          /\ IF lastLog.full
             THEN /\ lastLog.result = "dropped"
                  /\ Len(logChan) = ChanCap
                  /\ \A i \in 1..Len(logChan) : logChan[i] # lastLog.log
             ELSE /\ lastLog.result = "enqueued"
                  /\ logChan # <<>>
                  /\ logChan[Len(logChan)] = lastLog.log

\* A Log call found the channel full and dropped its record, while the
\* worker was still running.
C7_Witness ==
    /\ lastLog # NoLog
    /\ lastLog.result = "dropped" /\ lastLog.full
    /\ logger.worker = "loop"

\* The persisted rows as one batch, in the order the calls of Log were made.
RECURSIVE InCallOrder(_)
InCallOrder(rows) ==
    IF rows = {} THEN <<>>
    ELSE LET first == CHOOSE r \in rows : \A o \in rows : r.ptr <= o.ptr
         IN  <<first>> \o InCallOrder(rows \ {first})

LogsOfModel(m) == {r \in requestLogs : r.ModelConfigID = m}
SuccessLogsOfModel(m) ==
    {r \in LogsOfModel(m) : r.StatusCode >= 200 /\ r.StatusCode < 500 /\ r.StatusCode # 429}

\* C33: every flushed log with a ModelConfigID other than 0 counts once in
\* requestCount of its model's row, and once in success when its status is
\* in [200, 500) and is not 429, else once in error; the logs with
\* ModelConfigID 0 are rows of request_logs and have no stats row.
C33_FoldingRule ==
    /\ 0 \notin DOMAIN modelStats
    /\ \A m \in LogModelConfigIDs \ {0} :
          IF LogsOfModel(m) = {} THEN m \notin DOMAIN modelStats
          ELSE /\ m \in DOMAIN modelStats
               /\ modelStats[m].RequestCount = Cardinality(LogsOfModel(m))
               /\ modelStats[m].Success = Cardinality(SuccessLogsOfModel(m))
               /\ modelStats[m].Error =
                     Cardinality(LogsOfModel(m)) - Cardinality(SuccessLogsOfModel(m))

\* A 429, a 499 and a log without model have been flushed.
C33_Witness ==
    /\ \E r \in LogsOfModel(1) : r.StatusCode = 429
    /\ \E r \in LogsOfModel(1) : r.StatusCode = 499
    /\ LogsOfModel(0) # {}
    /\ modelStats[1].RequestCount = 2

(***************************************************************************)
(* Properties of the routing-token parsers (SpecParse).                    *)
(***************************************************************************)
\* The parts of a token left and right of its first `$`.
LeftOfDollar(token) == Prefix(token, Index(token, "$"))
RightOfDollar(token) == Suffix(token, Index(token, "$") + 1)

\* What the rule of C17 gives for a group id and an index string.
DollarRouting(groupID, indexStr) ==
    IF Atoi(indexStr).ok /\ Atoi(indexStr).value >= 1
    THEN RoutingInfo(groupID, TRUE, Ptr(Atoi(indexStr).value - 1))
    ELSE RoutingInfo(groupID, FALSE, Nil)

\* Route's split, as a RoutingInfo.
SplitRouting(split) ==
    RoutingInfo(split.groupID, split.pinIndex # -1,
                IF split.pinIndex # -1 THEN Ptr(split.pinIndex) ELSE Nil)

C18_GroupIdFirst ==
    (parseRet.fn = "ParseModelRouting" /\ ~Contains(parseIn, "$")) =>
        IF parseIn \in DOMAIN parseGroups
        THEN parseRet.routing = RoutingInfo(parseIn, FALSE, Nil)
        ELSE IF ModelMatches(parseGroups, parseIn) # {}
        THEN \E m \in ModelMatches(parseGroups, parseIn) :
                parseRet.routing = RoutingInfo(m.groupID, TRUE, Ptr(m.idx))
        ELSE parseRet.routing = RoutingInfo(parseIn, FALSE, Nil)

(***************************************************************************)
(* Properties of the SSE block splitter (SpecSSE).                         *)
(***************************************************************************)
\* The length of the separator that starts at position i of str, 0 for none.
SeparatorAt(str, i) ==
    IF HasAt(str, LFLF, i) THEN 2 ELSE IF HasAt(str, CRLFCRLF, i) THEN 4 ELSE 0

\* The frames of a byte string: cut at the earliest separator, again and
\* again; tail is what follows the last separator.
RECURSIVE Frames(_)
Frames(str) ==
    IF \A i \in 1..Len(str) : SeparatorAt(str, i) = 0
    THEN [frames |-> <<>>, tail |-> str]
    ELSE LET i == CHOOSE k \in 1..Len(str) :
                     SeparatorAt(str, k) > 0 /\ \A j \in 1..(k - 1) : SeparatorAt(str, j) = 0
             rest == Frames(SubSeq(str, i + SeparatorAt(str, i), Len(str)))
         IN  [frames |-> <<SubSeq(str, 1, i - 1)>> \o rest.frames, tail |-> rest.tail]

\* C19: however the stream is cut into reads, the blocks handed on so far
\* are exactly the frames of the bytes read so far - the blocks delimited by
\* the earliest "\n\n" or "\r\n\r\n", in order - and the buffer holds the
\* incomplete tail.
C19_FramesWhateverTheReads ==
    /\ sseBlocks = Frames(sseRead).frames
    /\ lineBuffer = Frames(sseRead).tail

\* A read of the single byte "\n" completed a "\r\n\r\n" begun in earlier
\* reads, after a first block ended by "\n\n" had been handed on.
C19_Witness ==
    /\ lastChunk = <<"LF">>
    /\ sseRead = <<"d", "LF", "LF", "CR", "LF", "CR", "LF">>
          \/ sseRead = <<"LF", "LF", "CR", "LF", "CR", "LF">>
    /\ Len(sseBlocks) = 2
    /\ lineBuffer = <<>>

(***************************************************************************)
(* Properties of the adapters' stream paths (SpecStream).                  *)
(***************************************************************************)
\* C20 (as claimed): when the stream path of an adapter has returned, the
\* last frame written to the client is "data: [DONE]" - whether the
\* upstream stream ended normally, without its own terminator, or with a
\* read error.
C20_StreamEndsWithDone ==
    adapterCall.pc = "returned" =>
        outbound # <<>> /\ outbound[Len(outbound)] = DoneFrame

(***************************************************************************)
(* Properties of the Gemini stream translation (SpecGemini).               *)
(***************************************************************************)
\* A text chunk: a GeminiResponse whose first candidate has text and
\* nothing else.
TextChunk(line) ==
    /\ line.kind = "data" /\ line.candidates /\ line.text # <<>>
    /\ ~line.grounding /\ ~line.usage

\* The upstream lines before its own "data: [DONE]", when that is its last
\* line.
BeforeDone(upstream) ==
    IF upstream # <<>> /\ upstream[Len(upstream)].kind = "done"
    THEN SubSeq(upstream, 1, Len(upstream) - 1)
    ELSE upstream

\* The stream of n text chunks has been translated to its end.
TextStreamTranslated ==
    /\ adapterCall.pc = "returned" /\ adapterCall.err = Nil
    /\ \A i \in 1..Len(BeforeDone(adapterCall.upstream)) :
          TextChunk(BeforeDone(adapterCall.upstream)[i])

RECURSIVE UpstreamText(_)
UpstreamText(lines) ==
    IF lines = <<>> THEN <<>> ELSE Head(lines).text \o UpstreamText(Tail(lines))

RECURSIVE ReassembledContent(_)
ReassembledContent(frames) ==
    IF frames = <<>> THEN <<>>
    ELSE (IF Head(frames).kind = "chunk" THEN Head(frames).content ELSE <<>>)
         \o ReassembledContent(Tail(frames))

C22_TerminalStatus ==
    [][(req.pc = "loop" /\ req'.pc = "done" /\ req'.status # 200) =>
          /\ req'.status = 502 => lastAttempt.outcome.kind = "error"
          /\ lastAttempt.outcome.kind = "response" =>
                req'.status = lastAttempt.outcome.status]_vars

\* The request is rejected before its first attempt.
RejectedStatus(status) ==
    /\ req'.pc = "done" /\ req'.status = status
    /\ upstreamCalls' = 0
    /\ globalRRCounters' = globalRRCounters
    /\ states' = states

\* C23: a rejection before dispatch makes no upstream call and leaves the
\* group counter and the health store as they were: an unknown group id is
\* answered 404; a group in which no model has a credential 503; otherwise a
\* pinned index outside [0, number of models) 400, and a pinned model without
\* credentials 503.
C23_PreDispatchRejections ==
    [][/\ (req.pc = "idle" /\ req'.pc # "idle") =>
            LET routing == req'.routing
                g       == routing.GroupID
            IN  IF g \notin DOMAIN modelGroups THEN RejectedStatus(404)
                ELSE LET models == modelGroups[g].Models
                     IN  IF \A i \in 1..Len(models) : Len(keyMap[models[i]]) = 0
                         THEN RejectedStatus(503)
                         ELSE routing.IsPinned =>
                              IF Head(routing.ModelIndex) \notin 0..(Len(models) - 1)
                              THEN RejectedStatus(400)
                              ELSE /\ req'.pc = "loop" /\ req'.attempt = 0
                                   /\ req'.modelCursor = Head(routing.ModelIndex)
                                   /\ upstreamCalls' = 0
                                   /\ globalRRCounters' = globalRRCounters
                                   /\ states' = states
       /\ (/\ req.pc = "loop" /\ req.routing.IsPinned /\ req.attempt = 0
           /\ req' # req
           /\ Len(keyMap[req.group.Models[req.modelCursor + 1]]) = 0) =>
            RejectedStatus(503)]_vars

\* Each of the four rejections has been given: the request is done with no
\* upstream call, the counter standing where an earlier request left it.
C23_Witness ==
    /\ req.pc = "done" /\ upstreamCalls = 0
    /\ CounterValue(globalRRCounters, "G") = 1
    /\ \/ req.status = 404 /\ req.routing.GroupID = "nogroup"
       \/ /\ req.status = 400 /\ req.routing = RoutingInfo("G", TRUE, Ptr(2))
          /\ Len(req.group.Models) = 2
       \/ /\ req.status = 503 /\ req.routing = RoutingInfo("G", TRUE, Ptr(1))
          /\ Len(req.group.Models) = 2
          /\ Len(keyMap[1]) > 0 /\ Len(keyMap[2]) = 0

(***************************************************************************)
(* Properties of the chat-completion route (SpecGateway).                  *)
(***************************************************************************)
\* C24 (as claimed): every completed chat-completion request hands exactly
\* one RequestLog to the asynchronous log writer, whatever its final status.
C24_OneLogPerRequest ==
    [][(req.pc = "done" /\ req'.pc = "idle") =>
          /\ logSeq' = logSeq + 1
          /\ logCall'.pc = "Log" /\ logCall'.log.StatusCode = req.status]_vars

(***************************************************************************)
(* Properties of the strategies (SpecProxy).                               *)
(***************************************************************************)
\* The snapshot with the strategy of every group taken as round_robin.
AsRoundRobin(groups) ==
    [g \in DOMAIN groups |-> [groups[g] EXCEPT !.Strategy = "round_robin"]]

\* C25 (as claimed): a group whose strategy name is not registered is
\* dispatched exactly as a round_robin group: a non-pinned request starts at
\* the model index round_robin gives it, moving the group counter, and a
\* failed attempt moves on to the model and credential round_robin moves on
\* to from the model in use, the end of the model list included.
C25_UnknownStrategyAsRoundRobin ==
    [][(req'.group # NoGroup /\ req'.group.Strategy \notin RegisteredStrategies) =>
          /\ (req.pc = "idle" /\ req'.pc = "keyidx") =>
                LET rr == GetInitialModelIndex(AsRoundRobin(modelGroups), globalRRCounters,
                                               req'.routing.GroupID)
                IN  req'.modelCursor = rr.index /\ globalRRCounters' = rr.counters
          /\ (req.pc = "loop" /\ req'.pc = "loop" /\ req'.attempt = req.attempt + 1
              /\ lastAttempt'.sent) =>
                LET n     == Len(req.group.Models)
                    index == req.modelCursor % n
                    total == Len(keyMap[req.group.Models[index + 1]])
                    rr    == IF lastAttempt'.outcome.kind = "response"
                                /\ IsHardError(lastAttempt'.outcome.status, Nil)
                             THEN skipToNextModel(index, req.keyCursor, n,
                                                  req.routing.IsPinned, "round_robin")
                             ELSE advanceCursors(index, req.keyCursor, n, total,
                                                 req.routing.IsPinned, "round_robin")
                IN  /\ req'.modelCursor % n = rr.modelCursor % n
                    /\ req'.keyCursor = rr.keyCursor]_vars

(***************************************************************************)
(* Properties of the attempt budget (SpecProxy).                           *)
(***************************************************************************)
\* 1.5 * T rounded up and rounded down, for a natural number T.
CeilOneAndHalf(T)  == CHOOSE b \in 0..(2 * T) : 2 * b >= 3 * T /\ 2 * (b - 1) < 3 * T
FloorOneAndHalf(T) == CHOOSE b \in 0..(2 * T) : 2 * b <= 3 * T /\ 2 * (b + 1) > 3 * T

\* The budget of every group a request may name is Rounded(T) kept within
\* [3, 12], T the group's total credential count, and 3 for a group that is
\* unknown or has no model; a request in its loop holds that budget.
BudgetIs(Rounded(_)) ==
    LET budget(g) == IF GroupModels(modelGroups, g) = <<>> THEN 3
                     ELSE Clamp(Rounded(SumKeyCounts(keyMap, modelGroups[g].Models)), 3, 12)
    IN  /\ \A g \in RequestedGroups : CalculateMaxRetries(modelGroups, keyMap, g) = budget(g)
        /\ req.pc \in {"keyidx", "loop"} => req.maxAttempts = budget(req.routing.GroupID)

\* C26 (as claimed): the attempt budget computed by CalculateMaxRetries is
\* clamp(ceil(1.5 * T), 3, 12) for every total credential count T of the
\* group, and 3 for an unknown or empty group.
C26_BudgetCeil == BudgetIs(CeilOneAndHalf)

\* C26 (amended): the attempt budget computed by CalculateMaxRetries is
\* clamp(floor(1.5 * T), 3, 12) for every total credential count T of the
\* group, and 3 for an unknown or empty group.
C26_BudgetFloor == BudgetIs(FloorOneAndHalf)

\* A request on a group of 5 credentials is in its loop with a budget of 7.
C26_Witness ==
    /\ req.pc = "loop"
    /\ SumKeyCounts(keyMap, req.group.Models) = 5
    /\ req.maxAttempts = 7
    /\ CalculateMaxRetries(modelGroups, keyMap, "nogroup") = 3

(***************************************************************************)
(* Properties of the request counter (SpecLB).                             *)
(***************************************************************************)
\* C27 (as claimed): a routing call that succeeds increments the request
\* counter of its group exactly once - the counter after the call is the
\* counter before plus 1 - for every strategy, pinned or not.
C27_OneIncrementPerRoute ==
    [][((\E requestModel \in LBRequests : RouteCall(requestModel)) /\ lbRet'.err = "") =>
          groupStates'[lbRet'.group].RequestCounter
              = groupStates[lbRet'.group].RequestCounter + 1]_vars

(***************************************************************************)
(* Properties of the starting credential (SpecProxy).                      *)
(***************************************************************************)
\* C28 (as claimed): a non-pinned request on a round_robin group enters its
\* loop with the key cursor at c mod len(keys(m0)), m0 its starting model and
\* c the counter value its own atomic increment returned - also when other
\* requests increment the counter between its model choice and its key choice.
C28_StartingKeyOffset ==
    (/\ req.pc = "loop" /\ req.attempt = 0 /\ ~req.routing.IsPinned
     /\ req.group.Strategy = "round_robin"
     /\ Len(keyMap[req.group.Models[req.modelCursor + 1]]) > 0) =>
        req.keyCursor = req.newCounter % Len(keyMap[req.group.Models[req.modelCursor + 1]])

(***************************************************************************)
(* Properties of failover between models (SpecLB).                         *)
(***************************************************************************)
\* Model i of the group a Route call was made on has a credential the health
\* store does not hold as unavailable.
HasAvailableCredential(ret, i) ==
    LET keys == groupStates[ret.group].Keys[groupStates[ret.group].Models[i]]
    IN  \E j \in 1..Len(keys) : ~Unavailable(states, now, keys[j])

\* C29 (as claimed): a non-pinned routing call whose strategy-selected model
\* has credentials, all of them in Cooldown or Dead, moves on to a following
\* model: when some model of the group has an available credential the call
\* succeeds and returns an available credential; it fails only when no model
\* of the group has one.
C29_ModelFailover ==
    [][(/\ lbRet' # NoRoute /\ lbRet'.modelIndex >= 0 /\ ~lbRet'.pinned
        /\ Len(SelectedKeys(lbRet')) > 0
        /\ \E i \in 1..Len(groupStates[lbRet'.group].Models) :
              HasAvailableCredential(lbRet', i)) =>
          /\ lbRet'.err = ""
          /\ ~Unavailable(states, now, lbRet'.key)]_vars

(***************************************************************************)
(* Properties of the refresh (SpecRefresh).                                *)
(***************************************************************************)
\* C30 (as claimed): right after a successful refresh the routing snapshot
\* holds exactly the groups, the models and the credentials the repository
\* holds - what was deleted from the repository is no longer routable - and
\* the per-group counters are what they were.
C30_SnapshotIsRepository ==
    [][RouterRefreshData =>
          /\ DOMAIN modelGroups' = DOMAIN db.groups
          /\ \A g \in DOMAIN db.groups : modelGroups'[g].Models = db.groups[g].Models
          /\ DOMAIN keyMap' = RepoModelIDs(db.groups)
          /\ \A id \in RepoModelIDs(db.groups) : keyMap'[id] = db.keys[id]
          /\ globalRRCounters' = globalRRCounters]_vars

(***************************************************************************)
(* Properties of ProxyRequest under a concurrent reload (SpecReload).      *)
(***************************************************************************)
\* The model ProxyRequest selects in the current pass of its loop.
SelectedModel == req.group.Models[(req.modelCursor % Len(req.group.Models)) + 1]

\* The selection pairs the model with the credentials the snapshot of
\* GetModelGroup held for it.
FromOldSnapshot ==
    /\ SelectedModel \in DOMAIN req.snapshotKeyMap
    /\ GetModelKeys(keyMap, SelectedModel).keys = req.snapshotKeyMap[SelectedModel]

\* The group the request works on is the group of the snapshot read now.
FromNewSnapshot ==
    /\ req.routing.GroupID \in DOMAIN modelGroups
    /\ modelGroups[req.routing.GroupID] = req.group

\* C31: every pass of the request loop that sends a credential upstream pairs
\* a model and a credential list of one snapshot: both as they were when the
\* request read its group, or both as the router holds them now.
C31_SelectionFromOneSnapshot ==
    [][(req.pc = "loop" /\ req' # req /\ lastAttempt'.outcome.kind \in {"response", "error"})
       => (FromOldSnapshot \/ FromNewSnapshot)]_vars

(***************************************************************************)
(* Properties of the counter arithmetic (SpecCounter).                     *)
(***************************************************************************)
\* C34: at every value of the counter - 0, the values whose int conversion
\* is negative and the wrap from the largest value to 0 included - the model
\* index and every key index Route computes lies within its slice.
C34_IndexesInRange ==
    lbRet # NoRoute =>
        /\ lbRet.err # "panic"
        /\ lbRet.modelIndex \in 0..lbRet.models - 1
        /\ \A i \in 1..Len(lbRet.keyIndexes) : lbRet.keyIndexes[i] \in 0..lbRet.keys - 1

(***************************************************************************)
(* Properties of streamAndMapResponse (SpecMap).                           *)
(***************************************************************************)
\* The lines read so far that carry reasoning, and those that carry visible
\* content only, by their position in the stream.
IsChunk(i) == adapterCall.upstream[i].kind = "chunk" /\ adapterCall.upstream[i].choices > 0
ReasoningAt(i) == IsChunk(i) /\ adapterCall.upstream[i].rc # <<>>
VisibleAt(i) == IsChunk(i) /\ adapterCall.upstream[i].rc = <<>>
                           /\ adapterCall.upstream[i].content # <<>>
FirstReasoning(i) == ReasoningAt(i) /\ \A j \in 1..i - 1 : ~ReasoningAt(j)
FirstVisibleAfterReasoning(i) ==
    /\ VisibleAt(i)
    /\ \E j \in 1..i - 1 : ReasoningAt(j)
    /\ \A j \in 1..i - 1 : VisibleAt(j) => \A k \in 1..j - 1 : ~ReasoningAt(k)

\* What a written line shows of the rewrite.
HasPrefix(w) == Len(w.content) >= 1 /\ <<w.content[1]>> = ThinkingPrefix
HasSeparator(w) == Len(w.content) >= 1 /\ <<w.content[1]>> = ContentSeparator
Unchanged(w) == ~w.modified /\ w.content = w.line.content

\* C35: of the lines written, exactly the first one with reasoning carries
\* the thinking prefix and exactly the first one with visible content after
\* reasoning carries the separator; every line after the separator is
\* written as it was read, reasoning or not.
C35_RewriteStopsAtContent ==
    adapterCall.pc \in {"map", "returned"} =>
        \A i \in 1..Len(outbound) :
            /\ outbound[i].line = adapterCall.upstream[i]
            /\ HasPrefix(outbound[i]) <=> FirstReasoning(i)
            /\ HasSeparator(outbound[i]) <=> FirstVisibleAfterReasoning(i)
            /\ (\E j \in 1..i - 1 : HasSeparator(outbound[j])) => Unchanged(outbound[i])

(***************************************************************************)
(* Properties of the lazy eviction in IsAvailable (SpecKM).                *)
(***************************************************************************)
\* C36: the eviction at the end of IsAvailable(k) removes only the expired
\* Cooldown entry the call read: when it deletes, the store holds for k the
\* entry of the call's read (or none), never a mark another goroutine wrote
\* since the read, and the key it reports available has no such mark.
C36_EvictsOnlyWhatItRead ==
    [][\A p \in Procs :
          (kmCall[p].pc = "evict" /\ kmCall'[p].pc = "idle") =>
              (kmCall[p].key \in DOMAIN states => states[kmCall[p].key] = kmCall[p].snap)]_vars

(***************************************************************************)
(* Properties of Log against Close (SpecLog).                              *)
(***************************************************************************)
\* C37: a call of Log never ends in a send on the closed channel, whether
\* it runs while Close() is running or after Close() has returned: it puts
\* the record into the channel or drops it.
C37_LogSafeWithClose ==
    lastLog # NoLog => lastLog.result \in {"enqueued", "dropped"}

(***************************************************************************)
(* Properties of the parser's result as a function (SpecParse).            *)
(***************************************************************************)
\* C38: for a snapshot and a token, ParseModelRouting has one result: the
\* routing a call returned is the only one a call on the same snapshot and
\* token can return, also when models of several groups are named by the
\* token.
C38_ParseDeterministic ==
    parseRet.fn = "ParseModelRouting" =>
        ParseModelRouting(parseGroups, parseIn) = {parseRet.routing}

(***************************************************************************)
(* Properties of a refresh that fails (SpecFailedRefresh).                 *)
(***************************************************************************)
\* C39: a RefreshData that returns an error leaves the snapshot as it was:
\* the settings, the groups with their models, and the credentials.
C39_FailedRefreshChangesNothing ==
    [][refreshErr' # "" => UNCHANGED <<gatewaySettings, modelGroups, keyMap>>]_vars

====
